---- MODULE Spec2Model ----
(***************************************************************************)
(* A model of the entitlement reconciliation engine of the admin console:  *)
(* the payment ledger and its verification gate, the entitlement store     *)
(* (userPlans), the inference of an entitlement's validity window, the     *)
(* claims synchronizer and the admin route guards, the claims page, the    *)
(* read path of the payment list, the entitlement editor and the payment   *)
(* processing call.                                                        *)
(*                                                                         *)
(* Text is modelled as sequences of one-character strings, so that         *)
(* toLowerCase(), includes(), trim() and toString() are computed and not   *)
(* assumed.  The rupee sign of the plan names is written "$": no rule of   *)
(* the code looks at it.                                                   *)
(***************************************************************************)
EXTENDS Integers, Sequences, FiniteSets, TLC

VARIABLES
    dur_in,     \* the input of one window inference: plan name, amount, clock samples
    dur_out,    \* its result: {startDate, expiryDate}, or NoResult before it ran
    payments,   \* Firestore collection 'payments': document id -> PaymentData or NoDoc
    userPlans,  \* Firestore collection 'userPlans': the documents, in insertion order
    clock,      \* serverTimestamp() / new Date(): the number of writes so far
    selectedPayment,  \* PaymentAdmin state, per operator: the payment of the open dialog
    dialog,     \* PaymentAdmin state: showVerifyDialog / showRejectDialog
    processing, \* PaymentAdmin state: the processing flag
    pc,         \* per operator: the await its running handler is suspended at
    call,       \* per operator: the arguments and locals of the running handler
    last,       \* what the call that the last step finished found and returned
    planSource, \* per userPlans document: the payment it was made from, and its
                \* stored status when the document was inserted
    auth_currentUser, \* firebase auth.currentUser of the browser session
    currentUser,      \* AuthProvider state: the user of the last onAuthStateChanged
    authInitialized,  \* AuthProvider state: the children are rendered once it is set
    authPending,      \* an onAuthStateChanged callback is due
    userRole,         \* UserRoleProvider state: 'loading', 'user' or 'admin'
    isLoading,        \* UserRoleProvider state
    effectPending,    \* the effect of UserRoleProvider is due ([currentUser] changed)
    claimsCall,       \* customClaimsService / processPayment: the running call, its
                      \* locals, its await and the session it was made in
    requests,         \* the requests sent to the authorization service and to the
                      \* payment processing service, in order
    snapshot,         \* the authorization service: custom claims per subject
    claimsPage,       \* CustomClaimsAdmin state: selectedUser, editForm, showEditDialog,
                      \* processing, and whether handleUpdate awaits its call
    payments_state,   \* PaymentAdmin state `payments`: the documents the list shows
    paymentExistsInUserPlans, \* PaymentAdmin state: dedup key -> exists in userPlans
    listener,         \* the onSnapshot callback of PaymentAdmin: its await, its argument
    plansPage,        \* UserPlansManagement state: selectedPayment, modalType,
                      \* updateFormData, isModalOpen
    adminAuth,        \* AdminAuthProvider state: isAdmin, isLoading, the currentUser
                      \* its effect last ran for, the token checks in flight, and
                      \* the user the decision in isAdmin was made for
    writes,           \* per operator: the updateDoc calls of the verify and reject
                      \* dialogs that were made and have not settled
    rss               \* one RSSFirestoreSync instance: the feed items, the loop
                      \* index of processRSSItems, stats and processedSlugs

durVars == <<dur_in, dur_out>>
ledgerVars == <<payments, userPlans, clock, planSource>>
adminVars == <<selectedPayment, dialog, processing, pc, call, last>>
guardVars == <<adminAuth>>
flightVars == <<writes>>
rssVars == <<rss>>
lateVars == <<guardVars, flightVars, rssVars>>
authVars == <<auth_currentUser, currentUser, authInitialized, authPending,
              userRole, isLoading, effectPending, lateVars>>
claimsVars == <<claimsCall, requests, snapshot>>
pageVars == <<claimsPage>>
driftVars == <<payments_state, paymentExistsInUserPlans, listener>>
editVars == <<plansPage>>
otherVars == <<driftVars, editVars>>
extVars == <<pageVars, otherVars>>
vars == <<durVars, ledgerVars, adminVars, authVars, claimsVars, extVars>>

\* An optional value is the empty set when undefined and {v} when it is v; the
\* absent document, the null object and the missing result are records, as the
\* present ones are.
Undefined == {}
Def(v) == {v}
Null == [null |-> TRUE]
NoDoc == [exists |-> FALSE]
NoResult == [by |-> "none"]

-----------------------------------------------------------------------------
(* Text *)

UpperChars ==
    <<"A","B","C","D","E","F","G","H","I","J","K","L","M","N","O","P","Q","R","S","T","U","V","W","X","Y","Z">>
LowerChars ==
    <<"a","b","c","d","e","f","g","h","i","j","k","l","m","n","o","p","q","r","s","t","u","v","w","x","y","z">>

\* String.prototype.toLowerCase, one character
LowerChar(c) ==
    IF \E i \in 1..Len(UpperChars) : UpperChars[i] = c
    THEN LowerChars[CHOOSE i \in 1..Len(UpperChars) : UpperChars[i] = c]
    ELSE c

\* String.prototype.toLowerCase
toLowerCase(s) == [i \in 1..Len(s) |-> LowerChar(s[i])]

\* String.prototype.includes: sub occurs in s as a contiguous run of characters
includes(s, sub) ==
    \E i \in 0..(Len(s) - Len(sub)) :
        \A j \in 1..Len(sub) : s[i + j] = sub[j]

Kw_monthly == <<"m","o","n","t","h","l","y">>
Kw_yearly == <<"y","e","a","r","l","y">>
Kw_year == <<"y","e","a","r">>
Kw_premium == <<"p","r","e","m","i","u","m">>
Kw_ai_fundamentals == <<"a","i"," ","f","u","n","d","a","m","e","n","t","a","l","s">>
Kw_genai == <<"g","e","n","a","i">>

\* "Premium - Monthly ($449)"
PlanPremiumMonthly449 ==
    <<"P","r","e","m","i","u","m"," ","-"," ","M","o","n","t","h","l","y"," ","(","$","4","4","9",")">>
\* "Premium - Yearly ($4308)"
PlanPremiumYearly4308 ==
    <<"P","r","e","m","i","u","m"," ","-"," ","Y","e","a","r","l","y"," ","(","$","4","3","0","8",")">>
\* "AI Fundamentals ($30000)"
PlanAIFundamentals30000 ==
    <<"A","I"," ","F","u","n","d","a","m","e","n","t","a","l","s"," ","(","$","3","0","0","0","0",")">>
\* "Unknown Plan"
PlanUnknown ==
    <<"U","n","k","n","o","w","n"," ","P","l","a","n">>
\* "Premium"
PlanPremiumOnly ==
    <<"P","r","e","m","i","u","m">>
\* "PREMIUM_MONTHLY"
PlanCodePremiumMonthly ==
    <<"P","R","E","M","I","U","M","_","M","O","N","T","H","L","Y">>
\* "PREMIUM_YEARLY"
PlanCodePremiumYearly ==
    <<"P","R","E","M","I","U","M","_","Y","E","A","R","L","Y">>
\* "PREMIUM_GENAI_DEV_01"
PlanCodeGenAI ==
    <<"P","R","E","M","I","U","M","_","G","E","N","A","I","_","D","E","V","_","0","1">>
\* "Monthly Year Pass"
PlanMonthlyYear ==
    <<"M","o","n","t","h","l","y"," ","Y","e","a","r"," ","P","a","s","s">>
\* "GenAI Course"
PlanGenAICourse ==
    <<"G","e","n","A","I"," ","C","o","u","r","s","e">>
\* "Free"
PlanFree ==
    <<"F","r","e","e">>

-----------------------------------------------------------------------------
(* Calendar dates, as the Date object keeps them: months are 0..11 *)

IsLeap(y) == (y % 4 = 0 /\ y % 100 # 0) \/ y % 400 = 0

DaysInMonth(y, m) ==
    IF m = 1 THEN (IF IsLeap(y) THEN 29 ELSE 28)
    ELSE IF m \in {3, 5, 8, 10} THEN 30
    ELSE 31

\* MakeDay/MakeDate of the Date object: a month past December carries into the
\* year, a day past the end of the month carries into the following month
RECURSIVE MakeDate(_, _, _)
MakeDate(y, m, d) ==
    LET yy == y + (m \div 12)
        mm == m % 12
    IN  IF d > DaysInMonth(yy, mm)
        THEN MakeDate(yy, mm + 1, d - DaysInMonth(yy, mm))
        ELSE [y |-> yy, m |-> mm, d |-> d]

\* date.setMonth(date.getMonth() + n)
setMonthPlus(date, n) == MakeDate(date.y, date.m + n, date.d)

\* date.setFullYear(date.getFullYear() + n)
setFullYearPlus(date, n) == MakeDate(date.y + n, date.m, date.d)

\* the clock read again right after: the same day, or the next one at midnight
NextDay(date) == MakeDate(date.y, date.m, date.d + 1)

-----------------------------------------------------------------------------
(* Duration inference: the validity window of an entitlement *)

PremiumMonthlyAmount == 449
PremiumYearlyAmount == 4308

\* the inference with another precedence, which the code does not have: the
\* amount of a premium plan is looked at before the period words of its name
addPaymentToUserPlans_expiryDate_amountFirst(plan_name, amount, expiryDate) ==
    LET name == toLowerCase(plan_name)
    IN  IF includes(name, Kw_premium) /\ amount = PremiumYearlyAmount
            THEN setFullYearPlus(expiryDate, 1)
        ELSE IF includes(name, Kw_monthly)
            THEN setMonthPlus(expiryDate, 1)
        ELSE IF includes(name, Kw_yearly) \/ includes(name, Kw_year)
            THEN setFullYearPlus(expiryDate, 1)
        ELSE IF includes(name, Kw_premium)
            THEN IF amount = PremiumMonthlyAmount
                    THEN setMonthPlus(expiryDate, 1)
                 ELSE setFullYearPlus(expiryDate, 1)
        ELSE setFullYearPlus(expiryDate, 1)

\* userPlanService.addPaymentToUserPlans, "Calculate expiry date based on plan":
\* expiryDate is the second clock sample, moved by the window
addPaymentToUserPlans_expiryDate(plan_name, amount, expiryDate) ==
    LET name == toLowerCase(plan_name)
    IN  IF includes(name, Kw_monthly)
            THEN setMonthPlus(expiryDate, 1)
        ELSE IF includes(name, Kw_yearly) \/ includes(name, Kw_year)
            THEN setFullYearPlus(expiryDate, 1)
        ELSE IF includes(name, Kw_premium)
            THEN IF amount = PremiumMonthlyAmount
                    THEN setMonthPlus(expiryDate, 1)
                 ELSE IF amount = PremiumYearlyAmount
                    THEN setFullYearPlus(expiryDate, 1)
                 ELSE setFullYearPlus(expiryDate, 1)
        ELSE IF includes(name, Kw_ai_fundamentals) \/ includes(name, Kw_genai)
            THEN setFullYearPlus(expiryDate, 1)
        ELSE setFullYearPlus(expiryDate, 1)

\* a payment service that gives a Premium plan of any other amount one month
createUserPlanFromPayment_expiryDate_monthDefault(plan_name, amount, expiryDate) ==
    LET name == toLowerCase(plan_name)
    IN  IF includes(name, Kw_monthly)
            THEN setMonthPlus(expiryDate, 1)
        ELSE IF includes(name, Kw_yearly) \/ includes(name, Kw_year)
            THEN setFullYearPlus(expiryDate, 1)
        ELSE IF includes(name, Kw_premium)
            THEN IF amount = PremiumMonthlyAmount
                    THEN setMonthPlus(expiryDate, 1)
                 ELSE IF amount = PremiumYearlyAmount
                    THEN setFullYearPlus(expiryDate, 1)
                 ELSE setMonthPlus(expiryDate, 1)
        ELSE IF includes(name, Kw_ai_fundamentals) \/ includes(name, Kw_genai)
            THEN setFullYearPlus(expiryDate, 1)
        ELSE setFullYearPlus(expiryDate, 1)

\* paymentService.createUserPlanFromPayment, "Calculate expiry date based on plan"
createUserPlanFromPayment_expiryDate(plan_name, amount, expiryDate) ==
    LET name == toLowerCase(plan_name)
    IN  IF includes(name, Kw_monthly)
            THEN setMonthPlus(expiryDate, 1)
        ELSE IF includes(name, Kw_yearly) \/ includes(name, Kw_year)
            THEN setFullYearPlus(expiryDate, 1)
        ELSE IF includes(name, Kw_premium)
            THEN IF amount = PremiumMonthlyAmount
                    THEN setMonthPlus(expiryDate, 1)
                 ELSE IF amount = PremiumYearlyAmount
                    THEN setFullYearPlus(expiryDate, 1)
                 ELSE setFullYearPlus(expiryDate, 1)
        ELSE IF includes(name, Kw_ai_fundamentals) \/ includes(name, Kw_genai)
            THEN setFullYearPlus(expiryDate, 1)
        ELSE setFullYearPlus(expiryDate, 1)

\* the plan names, amounts and days the inference is run on
DurationNames ==
    { PlanPremiumMonthly449, PlanPremiumYearly4308, PlanAIFundamentals30000,
      PlanUnknown, PlanPremiumOnly, PlanCodePremiumMonthly, PlanCodeGenAI,
      PlanMonthlyYear, PlanGenAICourse, PlanFree }
DurationAmounts == { PremiumMonthlyAmount, PremiumYearlyAmount, 999, 30000 }
DurationDays ==
    { [y |-> 2024, m |-> 0, d |-> 31], [y |-> 2024, m |-> 1, d |-> 29],
      [y |-> 2024, m |-> 11, d |-> 15], [y |-> 2025, m |-> 2, d |-> 10] }

DurInit ==
    /\ dur_in \in [ plan_name : DurationNames, amount : DurationAmounts,
                    now : DurationDays, second : BOOLEAN ]
    /\ dur_out = NoResult

\* the second `new Date()` of the two services
SecondSample(in) == IF in.second THEN NextDay(in.now) ELSE in.now

\* the window of a plan, as addPaymentToUserPlans works it out (lines 91-128)
DurationInUserPlanService ==
    /\ dur_out = NoResult
    /\ dur_out' = [ by |-> "addPaymentToUserPlans",
                    startDate |-> dur_in.now,
                    expiryDate |-> addPaymentToUserPlans_expiryDate(
                        dur_in.plan_name, dur_in.amount, SecondSample(dur_in)) ]
    /\ UNCHANGED <<dur_in, ledgerVars, adminVars, authVars, claimsVars, extVars>>

\* the window of a plan, as createUserPlanFromPayment works it out (lines 92-129)
DurationInPaymentService ==
    /\ dur_out = NoResult
    /\ dur_out' = [ by |-> "createUserPlanFromPayment",
                    startDate |-> dur_in.now,
                    expiryDate |-> createUserPlanFromPayment_expiryDate(
                        dur_in.plan_name, dur_in.amount, SecondSample(dur_in)) ]
    /\ UNCHANGED <<dur_in, ledgerVars, adminVars, authVars, claimsVars, extVars>>

DurNext ==
    \/ DurationInUserPlanService
    \/ DurationInPaymentService

-----------------------------------------------------------------------------
(* Text of notes and amounts *)

Digits == <<"0","1","2","3","4","5","6","7","8","9">>

\* Number.prototype.toString of a non-negative integer
RECURSIVE toString(_)
toString(n) ==
    IF n < 10 THEN <<Digits[n + 1]>>
    ELSE Append(toString(n \div 10), Digits[(n % 10) + 1])

RECURSIVE trimStart(_)
trimStart(s) == IF Len(s) > 0 /\ Head(s) = " " THEN trimStart(Tail(s)) ELSE s

RECURSIVE trimEnd(_)
trimEnd(s) ==
    IF Len(s) > 0 /\ s[Len(s)] = " " THEN trimEnd(SubSeq(s, 1, Len(s) - 1)) ELSE s

\* String.prototype.trim
trim(s) == trimEnd(trimStart(s))

\* the value of a digit character
DigitValue(c) == (CHOOSE i \in 1..Len(Digits) : Digits[i] = c) - 1

\* the longest prefix of s made of digits
RECURSIVE LeadingDigits(_)
LeadingDigits(s) ==
    IF Len(s) > 0 /\ \E i \in 1..Len(Digits) : Digits[i] = Head(s)
    THEN <<Head(s)>> \o LeadingDigits(Tail(s))
    ELSE <<>>

\* the number a sequence of digits writes
RECURSIVE DigitsValue(_)
DigitsValue(ds) ==
    IF ds = <<>> THEN 0
    ELSE 10 * DigitsValue(SubSeq(ds, 1, Len(ds) - 1)) + DigitValue(ds[Len(ds)])

\* parseInt of an unsigned text: leading blanks are skipped, the digits up to
\* the first other character are read, NaN when there is none
NaN == [ nan |-> TRUE ]
parseInt(s) ==
    LET ds == LeadingDigits(trimStart(s))
    IN  IF ds = <<>> THEN NaN ELSE DigitsValue(ds)

\* truthiness of a string: '' is falsy.  An optional string argument left out is
\* undefined, which the code tells from '' nowhere: it is modelled as ''
Truthy(s) == s # <<>>

-----------------------------------------------------------------------------
(* The payment ledger (collection 'payments') and the entitlement store
   (collection 'userPlans') *)

\* the documents the ledger comes to hold, and the writes (each takes a tick of
\* the clock) a behaviour makes
MaxPayments == 1
MaxClock == 4

PayIds == 1..MaxPayments
Operators == {"op1", "op2"}
Submitters == {"u1"}
PaymentRefs == {"pay_A"}
Amounts == {PremiumMonthlyAmount, PremiumYearlyAmount}
LedgerPlanNames == {PlanPremiumOnly}

\* what the operator types into the notes of a dialog
NotesTyped == { <<>>, <<" ">>, <<" ","o","k">> }
\* the remarks argument of updatePaymentStatus
RemarksGiven == { <<>>, <<" ">> }

\* currentUser?.email of the signed-in operator; op2's account carries none
OperatorEmail(o) == IF o = "op1" THEN <<"op1","@","aicareerx">> ELSE <<>>

SubmitterEmail(u) == <<u, "@", "mail">>

\* the day `new Date()` gives at a tick of the clock
DayOfTick(t) == MakeDate(2024, 0, 30 + t)

\* the dedup key of an entitlement: where('paymentId', ...) and where('amount', ...)
KeyExists(plans, paymentId, amount) ==
    \E i \in 1..Len(plans) : plans[i].paymentId = paymentId /\ plans[i].amount = amount

\* addDoc refuses data that holds an undefined field value (the Firestore SDK
\* throws unless ignoreUndefinedProperties is set, and firebase.ts does not set it)
AddDocAccepts(data, optional) == \A f \in optional : data[f] # Undefined

\* a submission that stamps the verification time on the new document
cleanData_stamped(amount, payment_id, plan_name, user, now) ==
    [ amount |-> amount,
      payment_id |-> payment_id,
      payment_method |-> "upi",
      plan_name |-> plan_name,
      remarks |-> <<>>,
      status |-> "pending",
      user_email |-> SubmitterEmail(user),
      user_id |-> user,
      created_at |-> now,
      updated_at |-> now,
      verified_by |-> Undefined,
      verified_at |-> Def(now) ]

\* paymentService.savePaymentDetails: cleanData
cleanData(amount, payment_id, plan_name, user, now) ==
    [ amount |-> amount,
      payment_id |-> payment_id,
      payment_method |-> "upi",
      plan_name |-> plan_name,
      remarks |-> <<>>,
      status |-> "pending",
      user_email |-> SubmitterEmail(user),
      user_id |-> user,
      created_at |-> now,
      updated_at |-> now,
      \* not written: absent from the document, undefined when read
      verified_by |-> Undefined,
      verified_at |-> Undefined ]

\* userPlanService.addPaymentToUserPlans: userPlanData
userPlanData(paymentData, now) ==
    [ userId |-> paymentData.user_id,
      userEmail |-> paymentData.user_email,
      planName |-> paymentData.plan_name,
      status |-> "active",
      startDate |-> DayOfTick(now),
      expiryDate |-> addPaymentToUserPlans_expiryDate(
                        paymentData.plan_name, paymentData.amount, DayOfTick(now)),
      paymentId |-> paymentData.payment_id,
      amount |-> toString(paymentData.amount),
      paymentMethod |-> paymentData.payment_method,
      remarks |-> paymentData.remarks,
      verifiedBy |-> paymentData.verified_by,
      verifiedAt |-> paymentData.verified_at,
      createdAt |-> now,
      updatedAt |-> now ]

\* paymentService.createUserPlanFromPayment: userPlanData
createUserPlanFromPayment_userPlanData(paymentData, now) ==
    [ userId |-> paymentData.user_id,
      userEmail |-> paymentData.user_email,
      planName |-> paymentData.plan_name,
      status |-> "active",
      startDate |-> DayOfTick(now),
      expiryDate |-> createUserPlanFromPayment_expiryDate(
                        paymentData.plan_name, paymentData.amount, DayOfTick(now)),
      paymentId |-> paymentData.payment_id,
      amount |-> toString(paymentData.amount),
      createdAt |-> now,
      updatedAt |-> now ]

\* userPlanService.checkPaymentExistsInUserPlans: the query's answer, and false
\* when the read throws
checkPaymentExistsInUserPlans(paymentId, amount, readOk) ==
    IF readOk THEN KeyExists(userPlans, paymentId, toString(amount)) ELSE FALSE

\* PaymentAdmin.handleVerifyPayment: the fields updateDoc writes
handleVerifyPayment_update(doc, o, verificationNotes, now) ==
    LET by == IF Truthy(OperatorEmail(o)) THEN OperatorEmail(o) ELSE <<"admin">>
    IN  [ doc EXCEPT
            !.status = "success",
            !.verified_at = Def(now),
            !.verified_by = Def(by),
            !.remarks = IF Truthy(trim(verificationNotes))
                        THEN trim(verificationNotes)
                        ELSE <<"Payment verified by ">> \o by,
            !.updated_at = now ]

\* PaymentAdmin.handleRejectPayment: the fields updateDoc writes
handleRejectPayment_update(doc, o, rejectionNotes, now) ==
    LET by == IF Truthy(OperatorEmail(o)) THEN OperatorEmail(o) ELSE <<"admin">>
    IN  [ doc EXCEPT
            !.status = "rejected",
            !.verified_at = Def(now),
            !.verified_by = Def(by),
            !.remarks = trim(rejectionNotes),
            !.updated_at = now ]

\* a service that stores a verification under the name the PaymentData type
\* of userPlanService has for it
updateData_verified(doc, status, verifiedBy, remarks, now) ==
    [ doc EXCEPT
        !.status = IF status = "success" THEN "verified" ELSE status,
        !.verified_at = Def(now),
        !.updated_at = now,
        !.verified_by = IF Truthy(verifiedBy) THEN Def(verifiedBy) ELSE @,
        !.remarks = IF Truthy(remarks) THEN remarks ELSE @ ]

\* paymentService.updatePaymentStatus: updateData, merged into the document
updateData(doc, status, verifiedBy, remarks, now) ==
    [ doc EXCEPT
        !.status = status,
        !.verified_at = Def(now),
        !.updated_at = now,
        !.verified_by = IF Truthy(verifiedBy) THEN Def(verifiedBy) ELSE @,
        !.remarks = IF Truthy(remarks) THEN remarks ELSE @ ]

\* { id: doc.id, ...doc.data() }
WithId(id) == [id |-> id] @@ payments[id]

\* UserPlansManagement as it is mounted, and after a successful update
PlansPageIdle ==
    [ selectedPayment |-> Undefined, isModalOpen |-> FALSE, modalType |-> "extend",
      updateFormData |-> [ planName |-> <<>>, amount |-> <<>>, remarks |-> <<>> ] ]

\* the empty map: {} of paymentExistsInUserPlans
NoKeys == [ key \in {} |-> FALSE ]

\* PaymentAdmin as it is mounted: the useState initial values, no handler running
AdminIdle ==
    /\ payments_state = {}
    /\ paymentExistsInUserPlans = NoKeys
    /\ listener = [ pc |-> "idle" ]
    /\ plansPage = PlansPageIdle
    /\ selectedPayment = [o \in Operators |-> Null]
    /\ writes = [o \in Operators |-> <<>>]
    /\ rss = [ pc |-> "idle", items |-> <<>>, i |-> 0,
               stats |-> [ total_items |-> 0, new_items |-> 0, updated_items |-> 0,
                           skipped_items |-> 0, errors |-> 0 ],
               processedSlugs |-> [ new_slugs |-> <<>>, updated_slugs |-> <<>>,
                                    skipped_slugs |-> <<>>, error_slugs |-> <<>> ] ]
    /\ dialog = [o \in Operators |-> "none"]
    /\ processing = [o \in Operators |-> FALSE]
    /\ pc = [o \in Operators |-> "idle"]
    /\ call = [o \in Operators |-> Null]
    /\ last = NoResult

LedgerInit ==
    /\ payments = [id \in PayIds |-> NoDoc]
    /\ userPlans = <<>>
    /\ planSource = <<>>
    /\ clock = 0
    /\ AdminIdle

\* paymentService.savePaymentDetails: a submitted payment enters the ledger as pending
SavePaymentDetails(user, payment_id, amount, plan_name) ==
    /\ clock < MaxClock
    /\ \E id \in PayIds :
        /\ payments[id] = NoDoc
        /\ \A j \in PayIds : j < id => payments[j] # NoDoc
        /\ payments' = [payments EXCEPT
                          ![id] = cleanData(amount, payment_id, plan_name, user, clock + 1)]
    /\ clock' = clock + 1
    /\ last' = NoResult
    /\ UNCHANGED <<userPlans, planSource, selectedPayment, dialog, processing, pc, call, durVars, extVars, authVars, claimsVars>>

\* PaymentAdmin, the Verify / Reject button of a listed payment: the list holds
\* the payments that are not success, the buttons are disabled unless pending
\* (every status the code writes is a lower-case literal, so toLowerCase() on it
\* changes nothing).  Of the selected payment the handlers read the id alone.
OpenDialog(o, id, which) ==
    /\ pc[o] = "idle"
    /\ dialog[o] = "none"
    /\ payments[id] # NoDoc
    /\ payments[id].status # "success"
    /\ ~(payments[id].status # "pending")
    /\ selectedPayment' = [selectedPayment EXCEPT
                             ![o] = [id |-> id, status |-> payments[id].status]]
    /\ dialog' = [dialog EXCEPT ![o] = which]
    /\ last' = NoResult
    /\ UNCHANGED <<ledgerVars, processing, pc, call, durVars, extVars, authVars, claimsVars>>

\* PaymentAdmin, the Cancel button of a dialog: the dialog closes, the selected
\* payment stays
CancelDialog(o) ==
    /\ pc[o] = "idle"
    /\ dialog[o] # "none"
    /\ ~processing[o]
    /\ dialog' = [dialog EXCEPT ![o] = "none"]
    /\ last' = NoResult
    /\ UNCHANGED <<ledgerVars, selectedPayment, processing, pc, call, durVars, extVars, authVars, claimsVars>>

\* what a finished verify or reject call did
GateResult(op, entry, before, blank, outcome) ==
    [ op |-> op, entry |-> entry, statusBefore |-> before, blank |-> blank,
      outcome |-> outcome ]

\* PaymentAdmin.handleVerifyPayment, the Verify Payment button of the dialog:
\* updateDoc succeeds or throws
HandleVerifyPayment(o, verificationNotes) ==
    /\ pc[o] = "idle"
    /\ dialog[o] = "verify"
    /\ ~processing[o]
    /\ selectedPayment[o] # Null
    /\ LET id == selectedPayment[o].id
           result(outcome) ==
               GateResult("verify", "handleVerifyPayment", payments[id].status,
                          ~Truthy(trim(verificationNotes)), outcome)
       IN \/ /\ clock < MaxClock
             /\ payments' = [payments EXCEPT ![id] =
                    handleVerifyPayment_update(@, o, verificationNotes, clock + 1)]
             /\ clock' = clock + 1
             /\ dialog' = [dialog EXCEPT ![o] = "none"]
             /\ selectedPayment' = [selectedPayment EXCEPT ![o] = Null]
             /\ last' = result("ok")
          \/ /\ UNCHANGED <<payments, clock, dialog, selectedPayment>>
             /\ last' = result("error")
    /\ UNCHANGED <<userPlans, planSource, processing, pc, call, durVars, extVars, authVars, claimsVars>>

\* PaymentAdmin.handleRejectPayment, the Reject Payment button of the dialog: a
\* blank reason ends it; else updateDoc succeeds or throws
HandleRejectPayment(o, rejectionNotes) ==
    /\ pc[o] = "idle"
    /\ dialog[o] = "reject"
    /\ ~processing[o]
    /\ LET id == IF selectedPayment[o] = Null THEN 0 ELSE selectedPayment[o].id
           result(outcome) ==
               GateResult("reject", "handleRejectPayment",
                          IF id = 0 THEN "none" ELSE payments[id].status,
                          ~Truthy(trim(rejectionNotes)), outcome)
       IN IF selectedPayment[o] = Null \/ ~Truthy(trim(rejectionNotes))
          THEN /\ last' = result("validation")
               /\ UNCHANGED <<payments, clock, dialog, selectedPayment>>
          ELSE \/ /\ clock < MaxClock
                  /\ payments' = [payments EXCEPT ![id] =
                         handleRejectPayment_update(@, o, rejectionNotes, clock + 1)]
                  /\ clock' = clock + 1
                  /\ dialog' = [dialog EXCEPT ![o] = "none"]
                  /\ selectedPayment' = [selectedPayment EXCEPT ![o] = Null]
                  /\ last' = result("ok")
               \/ /\ UNCHANGED <<payments, clock, dialog, selectedPayment>>
                  /\ last' = result("error")
    /\ UNCHANGED <<userPlans, planSource, processing, pc, call, durVars, extVars, authVars, claimsVars>>

\* what a finished addPaymentToUserPlans call did
AddResult(readOk, existedAtCheck, outcome) ==
    [ op |-> "add", entry |-> "addPaymentToUserPlans", readOk |-> readOk,
      existedAtCheck |-> existedAtCheck, outcome |-> outcome ]

\* PaymentAdmin.handleAddToUserPlans and userPlanService.addPaymentToUserPlans up
\* to the existence check: no element of the page calls the handler, so its
\* payment is any document of the ledger, as the snapshot listener delivered it
HandleAddToUserPlans(o, id, readOk) ==
    /\ pc[o] = "idle"
    /\ payments[id] # NoDoc
    /\ LET payment == WithId(id)
           there == KeyExists(userPlans, payment.payment_id, toString(payment.amount))
           exists == checkPaymentExistsInUserPlans(payment.payment_id, payment.amount, readOk)
       IN IF exists
          THEN /\ last' = AddResult(readOk, there, "duplicate")
               /\ UNCHANGED <<processing, pc, call>>
          ELSE /\ processing' = [processing EXCEPT ![o] = TRUE]
               /\ pc' = [pc EXCEPT ![o] = "add_insert"]
               /\ call' = [call EXCEPT ![o] =
                      [ payment |-> payment, readOk |-> readOk,
                        existedAtCheck |-> there ]]
               /\ last' = NoResult
    /\ UNCHANGED <<ledgerVars, selectedPayment, dialog, durVars, extVars, authVars, claimsVars>>

\* userPlanService.addPaymentToUserPlans from the window to addDoc, and the rest
\* of PaymentAdmin.handleAddToUserPlans
AddPaymentToUserPlansInsert(o) ==
    /\ pc[o] = "add_insert"
    /\ LET payment == call[o].payment
           data == userPlanData(payment, clock + 1)
           there == KeyExists(userPlans, data.paymentId, data.amount)
           result(outcome) ==
               AddResult(call[o].readOk, call[o].existedAtCheck, outcome)
       IN \/ /\ clock < MaxClock
             /\ AddDocAccepts(data, {"verifiedBy", "verifiedAt"})
             /\ userPlans' = Append(userPlans, data)
             /\ planSource' = Append(planSource,
                    [ id |-> payment.id, by |-> "addPaymentToUserPlans",
                      status |-> payments[payment.id].status,
                      readOk |-> call[o].readOk,
                      existedAtCheck |-> call[o].existedAtCheck,
                      existedAtInsert |-> there ])
             /\ clock' = clock + 1
             /\ last' = result("success")
          \/ /\ UNCHANGED <<userPlans, planSource, clock>>
             /\ last' = result("error")
    /\ processing' = [processing EXCEPT ![o] = FALSE]
    /\ pc' = [pc EXCEPT ![o] = "idle"]
    /\ call' = [call EXCEPT ![o] = Null]
    /\ UNCHANGED <<payments, selectedPayment, dialog, durVars, extVars, authVars, claimsVars>>

\* paymentService.updatePaymentStatus up to its second await: updateDoc.  The
\* caller passes its email as verifiedBy, which op2's account does not have, so
\* that `if (verifiedBy)` goes both ways
UpdatePaymentStatus(o, paymentId, status, remarks) ==
    /\ pc[o] = "idle"
    /\ LET verifiedBy == OperatorEmail(o)
           result(outcome) ==
               GateResult(IF status = "success" THEN "verify" ELSE "reject",
                          "updatePaymentStatus",
                          IF payments[paymentId] = NoDoc THEN "none"
                          ELSE payments[paymentId].status,
                          ~Truthy(trim(remarks)), outcome)
       IN \/ /\ clock < MaxClock
             /\ payments[paymentId] # NoDoc
             /\ payments' = [payments EXCEPT ![paymentId] =
                    updateData(@, status, verifiedBy, remarks, clock + 1)]
             /\ clock' = clock + 1
             /\ IF status = "success"
                THEN /\ pc' = [pc EXCEPT ![o] = "create_plan"]
                     /\ call' = [call EXCEPT ![o] =
                            [ paymentId |-> paymentId, result |-> result("ok") ]]
                     /\ last' = NoResult
                ELSE /\ last' = result("ok")
                     /\ UNCHANGED <<pc, call>>
          \/ /\ UNCHANGED <<payments, clock, pc, call>>
             /\ last' = result("error")
    /\ UNCHANGED <<userPlans, planSource, selectedPayment, dialog, processing, durVars, extVars, authVars, claimsVars>>

\* paymentService.createUserPlanFromPayment, then the return of updatePaymentStatus:
\* getDoc and addDoc; an error of either is logged and dropped
CreateUserPlanFromPayment(o) ==
    /\ pc[o] = "create_plan"
    /\ LET paymentData == payments[call[o].paymentId]
           data == createUserPlanFromPayment_userPlanData(paymentData, clock + 1)
       IN \/ /\ clock < MaxClock
             /\ AddDocAccepts(data, {})
             /\ userPlans' = Append(userPlans, data)
             /\ planSource' = Append(planSource,
                    [ id |-> call[o].paymentId, by |-> "createUserPlanFromPayment",
                      status |-> paymentData.status,
                      readOk |-> TRUE,
                      existedAtCheck |-> FALSE,
                      existedAtInsert |-> KeyExists(userPlans, data.paymentId, data.amount) ])
             /\ clock' = clock + 1
          \/ UNCHANGED <<userPlans, planSource, clock>>
    /\ last' = call[o].result
    /\ pc' = [pc EXCEPT ![o] = "idle"]
    /\ call' = [call EXCEPT ![o] = Null]
    /\ UNCHANGED <<payments, selectedPayment, dialog, processing, durVars, extVars, authVars, claimsVars>>

\* UserPlan['status'], the type of the status a caller of updatePlan may pass
UserPlanStatus == {"active", "expired", "cancelled"}

\* userPlanService.updatePlan(planId, { status }): updateDoc of the plan with
\* the updates and updatedAt, which succeeds or throws
UpdatePlan(i, status) ==
    /\ i \in 1..Len(userPlans)
    /\ \/ /\ clock < MaxClock
          /\ userPlans' = [userPlans EXCEPT ![i].status = status, ![i].updatedAt = clock + 1]
          /\ clock' = clock + 1
          /\ last' = [ op |-> "updatePlan", entry |-> "updatePlan", outcome |-> "success" ]
       \/ /\ UNCHANGED <<userPlans, clock>>
          /\ last' = [ op |-> "updatePlan", entry |-> "updatePlan", outcome |-> "error" ]
    /\ UNCHANGED <<payments, planSource, selectedPayment, dialog, processing, pc, call, durVars, extVars, authVars, claimsVars>>

LedgerNext ==
    \/ \E u \in Submitters, r \in PaymentRefs, a \in Amounts, n \in LedgerPlanNames :
          SavePaymentDetails(u, r, a, n)
    \/ \E o \in Operators, id \in PayIds, which \in {"verify", "reject"} :
          OpenDialog(o, id, which)
    \/ \E o \in Operators : CancelDialog(o)
    \/ \E o \in Operators, notes \in NotesTyped : HandleVerifyPayment(o, notes)
    \/ \E o \in Operators, notes \in NotesTyped : HandleRejectPayment(o, notes)
    \/ \E o \in Operators, id \in PayIds, readOk \in BOOLEAN :
          HandleAddToUserPlans(o, id, readOk)
    \/ \E o \in Operators : AddPaymentToUserPlansInsert(o)
    \/ \E o \in Operators, id \in PayIds, status \in {"success", "rejected"},
          remarks \in RemarksGiven :
          UpdatePaymentStatus(o, id, status, remarks)
    \/ \E o \in Operators : CreateUserPlanFromPayment(o)

-----------------------------------------------------------------------------
(* The reconciliation read path of PaymentAdmin *)

\* the payments of the ledger the read path is run on
MaxDriftPayments == 2
DriftIds == 1..MaxDriftPayments

\* `${payment_id}_${amount}`: the template writes a number in decimal
DriftKey(payment_id, amountText) == <<payment_id, amountText>>

\* a read that takes what it reads out of the collection, which getDocs does not
getDocs_consuming(docs) == SubSeq(docs, 1, 0)

\* getDocs(collection(db, 'userPlans')): the collection after the read
getDocs_after(docs) == docs

\* checkPaymentsInUserPlans: the keys of existingPayments, of the documents
\* with data.paymentId && data.amount
existingPayments(plans) ==
    { DriftKey(plans[i].paymentId, plans[i].amount) :
        i \in { j \in 1..Len(plans) : plans[j].paymentId # "" /\ Truthy(plans[j].amount) } }

\* checkPaymentsInUserPlans: existsMap, one entry per key of the payments it is
\* given whose status === 'success'
existsMap(given, existing) ==
    [ key \in { DriftKey(p.payment_id, toString(p.amount)) :
                  p \in { q \in given : q.status = "success" } } |->
        key \in existing ]

\* the onSnapshot callback of PaymentAdmin up to its await: every payment is
\* read, those whose status is success are filtered out (the statuses of the
\* ledger are lower case, toLowerCase() leaves them), setPayments, and
\* checkPaymentsInUserPlans(filteredPayments) up to its getDocs
OnSnapshot ==
    /\ listener.pc \in {"idle", "done"}
    /\ LET paymentsData == { WithId(id) : id \in { i \in DOMAIN payments : payments[i] # NoDoc } }
           filteredPayments == { payment \in paymentsData : payment.status # "success" }
       IN  /\ payments_state' = filteredPayments
           /\ listener' = [ pc |-> "getDocs", payments |-> filteredPayments ]
    /\ last' = NoResult
    /\ UNCHANGED <<paymentExistsInUserPlans, ledgerVars, pageVars, editVars, durVars, authVars, claimsVars,
                   selectedPayment, dialog, processing, pc, call>>

\* checkPaymentsInUserPlans from the answer of getDocs: the map is set, or the
\* read threw and the catch sets the empty map
CheckPaymentsInUserPlans ==
    /\ listener.pc = "getDocs"
    /\ \/ /\ paymentExistsInUserPlans' =
                existsMap(listener.payments, existingPayments(userPlans))
          /\ listener' = [ pc |-> "done", read |-> "ok" ]
       \/ /\ paymentExistsInUserPlans' = NoKeys
          /\ listener' = [ pc |-> "done", read |-> "error" ]
    /\ userPlans' = getDocs_after(userPlans)
    /\ last' = NoResult
    /\ UNCHANGED <<payments_state, payments, clock, planSource, pageVars, editVars, durVars, authVars,
                   claimsVars, selectedPayment, dialog, processing, pc, call>>

\* userPlanService.getUserPlans: the documents whose status is 'active', or
\* the empty list when the read throws
GetUserPlans ==
    /\ \/ last' = [ by |-> "getUserPlans",
                     plans |-> SelectSeq(userPlans, LAMBDA plan : plan.status = "active") ]
       \/ last' = [ by |-> "getUserPlans", plans |-> <<>> ]
    /\ last # last'
    /\ UNCHANGED <<driftVars, ledgerVars, pageVars, editVars, durVars, authVars, claimsVars,
                   selectedPayment, dialog, processing, pc, call>>

\* what the read path reports: as missing activations the keys the map holds
\* with false; no code of the read path reads the claims of a subject, and it
\* reports nothing about them
listDrift ==
    [ missing_activation |->
          { key \in DOMAIN paymentExistsInUserPlans : ~paymentExistsInUserPlans[key] },
      stale_claims |-> {} ]

\* a payment of the ledger: as savePaymentDetails wrote it, then verified or
\* rejected by an operator
DriftPayment(id, status, amount) ==
    LET doc == cleanData(amount, "pay_A", PlanPremiumOnly, "u1", id)
    IN  IF status = "pending" THEN doc
        ELSE updateData(doc, status, OperatorEmail("op1"), <<" ","o","k">>,
                        MaxDriftPayments + id)

\* the entitlements made from the payments of `activated`, in the order of the
\* payments, one per dedup key
RECURSIVE PlansUpTo(_, _, _)
PlansUpTo(docs, activated, n) ==
    IF n = 0 THEN <<>>
    ELSE LET before == PlansUpTo(docs, activated, n - 1)
             plan == userPlanData(docs[n], 2 * MaxDriftPayments + n)
         IN  IF n \in activated /\ ~KeyExists(before, plan.paymentId, plan.amount)
             THEN Append(before, plan)
             ELSE before

\* a ledger after submissions, verifications, rejections and activations of
\* verified payments
DriftLedger ==
    /\ \E status \in [DriftIds -> {"pending", "success", "rejected"}],
          amount \in [DriftIds -> Amounts] :
         /\ payments = [ id \in DriftIds |-> DriftPayment(id, status[id], amount[id]) ]
         /\ \E activated \in SUBSET { id \in DriftIds : status[id] = "success" } :
               userPlans = PlansUpTo(payments, activated, MaxDriftPayments)
    /\ planSource = <<>>
    /\ clock = 3 * MaxDriftPayments

DriftNext ==
    \/ OnSnapshot
    \/ CheckPaymentsInUserPlans
    \/ GetUserPlans

-----------------------------------------------------------------------------
(* UserPlansManagement: the update of a payment's details *)

\* the updates of one behaviour
MaxEdits == 2

\* what the operator selects and types in the update form
PlanOptions == { PlanFree, PlanPremiumYearly4308 }
AmountsTyped == { <<>>, <<"4","3","0","8">>, <<" ","4","4","9","x">> }

\* UserPlansManagement.handleOpenUpdateModal: the list holds the payments whose
\* status is success
HandleOpenUpdateModal(id) ==
    /\ payments[id] # NoDoc
    /\ payments[id].status = "success"
    /\ ~plansPage.isModalOpen
    /\ plansPage' = [ selectedPayment |-> Def(WithId(id)), isModalOpen |-> TRUE,
                      modalType |-> "update",
                      updateFormData |-> [ planName |-> payments[id].plan_name,
                                           amount |-> toString(payments[id].amount),
                                           remarks |-> payments[id].remarks ] ]
    /\ last' = NoResult
    /\ UNCHANGED <<ledgerVars, driftVars, pageVars, durVars, authVars, claimsVars,
                   selectedPayment, dialog, processing, pc, call>>

\* the operator changes the plan and the amount of the form
EditUpdateForm(planName, amount) ==
    /\ plansPage.isModalOpen
    /\ plansPage' = [ plansPage EXCEPT !.updateFormData.planName = planName,
                                       !.updateFormData.amount = amount ]
    /\ plansPage' # plansPage
    /\ last' = NoResult
    /\ UNCHANGED <<ledgerVars, driftVars, pageVars, durVars, authVars, claimsVars,
                   selectedPayment, dialog, processing, pc, call>>

\* UserPlansManagement.handleUpdatePlan, modalType 'update': the fields of
\* `updates`, written to the payment with updateDoc
handleUpdatePlan_updates(doc, updateFormData, now) ==
    [ doc EXCEPT
        !.plan_name = IF Truthy(updateFormData.planName) THEN updateFormData.planName ELSE @,
        !.amount = IF Truthy(updateFormData.amount) THEN parseInt(updateFormData.amount) ELSE @,
        !.remarks = IF Truthy(updateFormData.remarks) THEN updateFormData.remarks ELSE @,
        !.updated_at = now ]

\* UserPlansManagement.handleUpdatePlan: the write succeeds and the modal is
\* closed, or it throws and the toast is shown
HandleUpdatePlan ==
    /\ plansPage.isModalOpen
    /\ plansPage.modalType = "update"
    /\ \E selected \in plansPage.selectedPayment :
         \/ /\ clock < 3 * MaxDriftPayments + MaxEdits
            /\ payments[selected.id] # NoDoc
            /\ payments' = [ payments EXCEPT ![selected.id] =
                   handleUpdatePlan_updates(@, plansPage.updateFormData, clock + 1) ]
            /\ clock' = clock + 1
            /\ plansPage' = PlansPageIdle
            /\ last' = [ by |-> "handleUpdatePlan", outcome |-> "ok" ]
         \/ /\ last' = [ by |-> "handleUpdatePlan", outcome |-> "error" ]
            /\ UNCHANGED <<payments, clock, plansPage>>
    /\ UNCHANGED <<userPlans, planSource, driftVars, pageVars, durVars, authVars, claimsVars,
                   selectedPayment, dialog, processing, pc, call>>

EditNext ==
    \/ \E id \in DriftIds : HandleOpenUpdateModal(id)
    \/ \E planName \in PlanOptions, amount \in AmountsTyped : EditUpdateForm(planName, amount)
    \/ HandleUpdatePlan

-----------------------------------------------------------------------------
(* The session, the admin route and the claims service *)

\* the requests a behaviour sends to the authorization service
MaxRequests == 2

\* the accounts of the project and the role claim of each one's ID token
Users == {"root", "member", "guest"}
RoleClaim(u) ==
    IF u = "root" THEN Def("admin")
    ELSE IF u = "member" THEN Def("user")
    ELSE Undefined

\* the subjects whose claims are managed
Subjects == {"s1"}

\* the ID token of a session: header.payload.signature; atob() of the payload
\* fails on the characters of base64url that base64 does not have
IdToken(u, decodable) ==
    [ sub |-> u, parts |-> 3, decodable |-> decodable, role |-> RoleClaim(u) ]

\* the firebase User of a session, with the ID token getIdToken() returns for it
User(u, decodable) == [ uid |-> u, idToken |-> IdToken(u, decodable) ]

\* the sessions that are signed in to: of the administrator, one whose token
\* atob() decodes and one whose token it does not
Sessions ==
    { User(u, TRUE) : u \in Users } \cup { User("root", FALSE) }

\* jwtDecoder.decodeJWT
decodeJWT(token) ==
    IF token.parts # 3 THEN Null
    ELSE IF ~token.decodable THEN Null
    ELSE [ role |-> token.role ]

\* jwtDecoder.getUserRoleFromJWT: decoded?.role || null
getUserRoleFromJWT(token) ==
    LET decoded == decodeJWT(token)
    IN  IF decoded = Null THEN Undefined ELSE decoded.role

\* jwtDecoder.isAdminFromJWT
isAdminFromJWT(token) == getUserRoleFromJWT(token) = Def("admin")

\* the claims a caller passes: CustomClaims, Partial<CustomClaims>, fieldsToDelete
ClaimsGiven ==
    { [ f \in {"is_premium", "plan_name", "role"} |->
          IF f = "is_premium" THEN "true" ELSE IF f = "plan_name" THEN "premium" ELSE r ]
      : r \in {"admin", "user"} }
PartialClaimsGiven ==
    { [ f \in {"role"} |-> "admin" ], [ f \in {"plan_name"} |-> "free" ] }
FieldsGiven == { {"plan_name"}, {"role"} }
NoClaims == [ f \in {} |-> "" ]

\* { ...customClaims, role: userRole }
claimsWithRole(customClaims, role) ==
    [ f \in DOMAIN customClaims \cup {"role"} |->
        IF f = "role" THEN role ELSE customClaims[f] ]

\* a service whose POST clears the claims when they already are what is posted
\* and whose PUT drops a field that already holds the value put
ServerApply_toggle(op, claims, body) ==
    IF op = "set" THEN (IF claims = body THEN [ f \in {} |-> "" ] ELSE body)
    ELSE IF op = "update"
        THEN [ f \in (DOMAIN claims \cup DOMAIN body)
                       \ { g \in DOMAIN claims \cap DOMAIN body : claims[g] = body[g] } |->
                 IF f \in DOMAIN body THEN body[f] ELSE claims[f] ]
    ELSE [ f \in DOMAIN claims \ body |-> claims[f] ]

\* the authorization service, as the endpoints are named: POST replaces the
\* claims of the subject, PUT merges into them, DELETE removes fields
ServerApply(op, claims, body) ==
    IF op = "set" THEN body
    ELSE IF op = "update"
        THEN [ f \in DOMAIN claims \cup DOMAIN body |->
                 IF f \in DOMAIN body THEN body[f] ELSE claims[f] ]
    ELSE [ f \in DOMAIN claims \ body |-> claims[f] ]

\* what the service may hold when it answers that the request failed: the
\* claims as they were, or the request carried out for some of its fields
ServerApplyPart(op, claims, body) ==
    IF op = "set" THEN { claims }
    ELSE IF op = "update"
        THEN { ServerApply(op, claims, [ f \in F |-> body[f] ]) : F \in SUBSET DOMAIN body }
    ELSE { ServerApply(op, claims, F) : F \in SUBSET body }

\* CustomClaimsAdmin: no user selected, no dialog
PageIdle ==
    [ selectedUser |-> Undefined, editForm |-> NoClaims, showEditDialog |-> FALSE,
      processing |-> FALSE, awaiting |-> FALSE, failed |-> FALSE ]

\* AdminAuthProvider as it is mounted: useState(false), useState(true); its
\* effect has not run and no decision has been made
AdminAuthIdle ==
    [ isAdmin |-> FALSE, isLoading |-> TRUE, deps |-> Undefined, checks |-> {},
      checkedFor |-> Undefined ]

\* the page is loaded in a browser whose session is the given one
AuthStart(session) ==
    /\ auth_currentUser = session
    /\ currentUser = Undefined
    /\ authInitialized = FALSE
    /\ authPending = TRUE
    /\ userRole = "loading"
    /\ isLoading = TRUE
    /\ effectPending = FALSE
    /\ claimsCall = [ pc |-> "idle" ]
    /\ requests = <<>>
    /\ snapshot = [ s \in Subjects |-> NoClaims ]
    /\ claimsPage = PageIdle
    /\ adminAuth = AdminAuthIdle

\* the page is loaded and nobody is signed in
AuthInit == AuthStart(Undefined)

\* AuthContext.login / loginWithGoogle: the session becomes the account's
SignIn(user) ==
    /\ auth_currentUser # Def(user)
    /\ auth_currentUser' = Def(user)
    /\ authPending' = TRUE
    /\ last' = NoResult
    /\ UNCHANGED <<currentUser, authInitialized, userRole, isLoading, effectPending,
                   claimsVars, durVars, extVars, ledgerVars, lateVars,
                   selectedPayment, dialog, processing, pc, call>>

\* AuthContext.logout
SignOut ==
    /\ auth_currentUser # Undefined
    /\ auth_currentUser' = Undefined
    /\ authPending' = TRUE
    /\ last' = NoResult
    /\ UNCHANGED <<currentUser, authInitialized, userRole, isLoading, effectPending,
                   claimsVars, durVars, extVars, ledgerVars, lateVars,
                   selectedPayment, dialog, processing, pc, call>>

\* AuthProvider, the callback of onAuthStateChanged; UserRoleProvider is mounted
\* when the children first render, and its effect is due then and whenever
\* currentUser changes
OnAuthStateChanged ==
    /\ authPending
    /\ currentUser' = auth_currentUser
    /\ authInitialized' = TRUE
    /\ authPending' = FALSE
    /\ effectPending' = (effectPending \/ ~authInitialized \/ currentUser # auth_currentUser)
    /\ last' = NoResult
    /\ UNCHANGED <<auth_currentUser, userRole, isLoading,
                   claimsVars, durVars, extVars, ledgerVars, lateVars,
                   selectedPayment, dialog, processing, pc, call>>

\* UserRoleProvider, the effect: checkUserRole
CheckUserRole ==
    /\ effectPending
    /\ userRole' = IF currentUser = Undefined THEN "user" ELSE "admin"
    /\ isLoading' = FALSE
    /\ effectPending' = FALSE
    /\ last' = NoResult
    /\ UNCHANGED <<auth_currentUser, currentUser, authInitialized, authPending,
                   claimsVars, durVars, extVars, ledgerVars, lateVars,
                   selectedPayment, dialog, processing, pc, call>>

\* UserRoleProvider: isAdmin: userRole === 'admin'
isAdmin == userRole = "admin"

\* AdminRoute (the guard on useUserRole), under AuthProvider's
\* {authInitialized && children}: what the admin route shows
AdminRoute ==
    IF ~authInitialized THEN "nothing"
    ELSE IF isLoading THEN "loading"
    ELSE IF currentUser = Undefined THEN "signin"
    ELSE IF ~isAdmin THEN "signin"
    ELSE "children"

\* AdminAuthProvider, the effect on [currentUser]: checkAdminStatus up to its
\* await.  Without a user the state is reset at once; with one,
\* currentUser.getIdTokenResult() is called and awaited, and neither
\* isLoading nor isAdmin is touched before it answers
AdminAuthEffect ==
    /\ authInitialized
    /\ adminAuth.deps # Def(currentUser)
    /\ adminAuth' =
          IF currentUser = Undefined
          THEN [ adminAuth EXCEPT !.isAdmin = FALSE, !.isLoading = FALSE,
                                  !.deps = Def(currentUser), !.checkedFor = Undefined ]
          ELSE [ adminAuth EXCEPT !.deps = Def(currentUser),
                                  !.checks = @ \cup currentUser ]
    /\ last' = NoResult
    /\ UNCHANGED <<auth_currentUser, currentUser, authInitialized, authPending,
                   userRole, isLoading, effectPending,
                   claimsVars, durVars, extVars, ledgerVars, flightVars, rssVars,
                   selectedPayment, dialog, processing, pc, call>>

\* AdminAuthProvider.checkAdminStatus:
\* decodedJWT?.role || claims.role || 'user', where claims are the token's
\* claims as the SDK parsed them
checkAdminStatus_userRole(token) ==
    IF getUserRoleFromJWT(token) # Undefined THEN getUserRoleFromJWT(token)
    ELSE IF token.role # Undefined THEN token.role
    ELSE Def("user")

\* AdminAuthProvider.checkAdminStatus: isAdminFromJWT(token) || userRole === 'admin'
hasAdminRole(token) ==
    isAdminFromJWT(token) \/ checkAdminStatus_userRole(token) = Def("admin")

\* AdminAuthProvider.checkAdminStatus from the answer of getIdTokenResult() for
\* the user the effect was run for: the decision is stored, or the catch
\* stores false; finally setIsLoading(false).  Nothing compares that user with
\* the currentUser of the moment
AdminAuthCheckResolves(user) ==
    /\ user \in adminAuth.checks
    /\ \/ adminAuth' = [ adminAuth EXCEPT !.isAdmin = hasAdminRole(user.idToken),
                                          !.isLoading = FALSE,
                                          !.checks = @ \ {user},
                                          !.checkedFor = Def(user) ]
       \/ adminAuth' = [ adminAuth EXCEPT !.isAdmin = FALSE,
                                          !.isLoading = FALSE,
                                          !.checks = @ \ {user},
                                          !.checkedFor = Undefined ]
    /\ last' = NoResult
    /\ UNCHANGED <<auth_currentUser, currentUser, authInitialized, authPending,
                   userRole, isLoading, effectPending,
                   claimsVars, durVars, extVars, ledgerVars, flightVars, rssVars,
                   selectedPayment, dialog, processing, pc, call>>

\* AdminRoute (the guard on useAdminAuth), under AuthProvider's
\* {authInitialized && children}: what the admin route shows
AdminRoute_useAdminAuth ==
    IF ~authInitialized THEN "nothing"
    ELSE IF adminAuth.isLoading THEN "loading"
    ELSE IF ~adminAuth.isAdmin THEN "denied"
    ELSE "children"

\* the most updateDoc calls of one operator's dialogs the model lets wait at once
MaxInFlight == 3

\* PaymentAdmin, the button of the dialog without the attribute
VerifyButton_disabled_never(o) == FALSE

\* PaymentAdmin, the Verify Payment button of the dialog: disabled={processing}
VerifyButton_disabled(o) == processing[o]

\* PaymentAdmin, the Reject Payment button of the dialog:
\* disabled={processing || !rejectionNotes.trim()}
RejectButton_disabled(o, rejectionNotes) ==
    processing[o] \/ ~Truthy(trim(rejectionNotes))

\* the state of the session providers, which the dialogs leave alone
sessionVars == <<auth_currentUser, currentUser, authInitialized, authPending,
                 userRole, isLoading, effectPending, guardVars>>

\* PaymentAdmin.handleVerifyPayment from the click to its await: the click
\* reaches the handler when the button is enabled in the page as rendered
\* (the state set by a click's handler is rendered before the next click is
\* delivered); setProcessing(true), and updateDoc is called with the id of the
\* selected payment and the notes as typed
HandleVerifyPaymentCall(o, verificationNotes) ==
    /\ dialog[o] = "verify"
    /\ ~VerifyButton_disabled(o)
    /\ selectedPayment[o] # Null
    /\ Len(writes[o]) < MaxInFlight
    /\ processing' = [processing EXCEPT ![o] = TRUE]
    /\ writes' = [writes EXCEPT ![o] =
                    Append(@, [ op |-> "verify", id |-> selectedPayment[o].id,
                                notes |-> verificationNotes ])]
    /\ last' = NoResult
    /\ UNCHANGED <<ledgerVars, selectedPayment, dialog, pc, call, durVars, extVars,
                   sessionVars, rssVars, claimsVars>>

\* PaymentAdmin.handleRejectPayment from the click to its await: without a
\* selected payment or with a blank reason it returns before the flag is set
HandleRejectPaymentCall(o, rejectionNotes) ==
    /\ dialog[o] = "reject"
    /\ ~RejectButton_disabled(o, rejectionNotes)
    /\ Len(writes[o]) < MaxInFlight
    /\ IF selectedPayment[o] = Null \/ ~Truthy(trim(rejectionNotes))
       THEN /\ last' = GateResult("reject", "handleRejectPayment", "none",
                                  ~Truthy(trim(rejectionNotes)), "validation")
            /\ UNCHANGED <<processing, writes>>
       ELSE /\ processing' = [processing EXCEPT ![o] = TRUE]
            /\ writes' = [writes EXCEPT ![o] =
                            Append(@, [ op |-> "reject", id |-> selectedPayment[o].id,
                                        notes |-> rejectionNotes ])]
            /\ last' = NoResult
    /\ UNCHANGED <<ledgerVars, selectedPayment, dialog, pc, call, durVars, extVars,
                   sessionVars, rssVars, claimsVars>>

\* a sequence without its k-th element
Without(s, k) == SubSeq(s, 1, k - 1) \o SubSeq(s, k + 1, Len(s))

\* PaymentAdmin.handleVerifyPayment / handleRejectPayment from the await on:
\* updateDoc resolves (the document is written, the handler's own dialog is
\* closed, the selected payment is dropped) or rejects (the catch shows a
\* toast); finally setProcessing(false) either way
UpdateDocSettles(o, k) ==
    /\ k \in 1..Len(writes[o])
    /\ LET w == writes[o][k]
           entry == IF w.op = "verify" THEN "handleVerifyPayment"
                                       ELSE "handleRejectPayment"
           result(outcome) ==
               GateResult(w.op, entry, payments[w.id].status,
                          ~Truthy(trim(w.notes)), outcome)
       IN \/ /\ clock < MaxClock
             /\ payments' = [payments EXCEPT ![w.id] =
                    IF w.op = "verify"
                    THEN handleVerifyPayment_update(@, o, w.notes, clock + 1)
                    ELSE handleRejectPayment_update(@, o, w.notes, clock + 1)]
             /\ clock' = clock + 1
             /\ dialog' = [dialog EXCEPT ![o] = IF @ = w.op THEN "none" ELSE @]
             /\ selectedPayment' = [selectedPayment EXCEPT ![o] = Null]
             /\ last' = result("ok")
          \/ /\ UNCHANGED <<payments, clock, dialog, selectedPayment>>
             /\ last' = result("error")
    /\ processing' = [processing EXCEPT ![o] = FALSE]
    /\ writes' = [writes EXCEPT ![o] = Without(@, k)]
    /\ UNCHANGED <<userPlans, planSource, pc, call, durVars, extVars,
                   sessionVars, rssVars, claimsVars>>

\* PaymentAdmin, a dialog's onOpenChange (Escape, a click outside, the close
\* button): the dialog closes whatever the processing flag is
DismissDialog(o) ==
    /\ dialog[o] # "none"
    /\ dialog' = [dialog EXCEPT ![o] = "none"]
    /\ last' = NoResult
    /\ UNCHANGED <<ledgerVars, selectedPayment, processing, pc, call, durVars, extVars,
                   sessionVars, flightVars, rssVars, claimsVars>>

\* the two dialogs of the operators' pages with the write as a call that is
\* made and settles later
FlightNext ==
    \/ \E u \in Submitters, r \in PaymentRefs, n \in LedgerPlanNames :
          SavePaymentDetails(u, r, PremiumMonthlyAmount, n)
    \/ \E o \in Operators, id \in PayIds, which \in {"verify", "reject"} :
          OpenDialog(o, id, which)
    \/ \E o \in Operators : CancelDialog(o)
    \/ \E o \in Operators : DismissDialog(o)
    \/ \E o \in Operators, notes \in NotesTyped : HandleVerifyPaymentCall(o, notes)
    \/ \E o \in Operators, notes \in NotesTyped : HandleRejectPaymentCall(o, notes)
    \/ \E o \in Operators, k \in 1..MaxInFlight : UpdateDocSettles(o, k)

\* the most items of a feed
MaxItems == 3

\* the text of an item's <link> element: none, blank, ending in a slash, and
\* two posts
LinksGiven ==
    { Undefined, Def(<<" ">>), Def(<<"p","/">>), Def(<<"p","/","a">>), Def(<<"b">>) }

\* the items of a feed: the link, and whether reading the item's fields throws
ItemsGiven ==
    [ link : LinksGiven, throws : {FALSE} ] \cup [ link : {Undefined}, throws : {TRUE} ]

\* the feeds of at most MaxItems items
FeedsGiven == UNION { [1..n -> ItemsGiven] : n \in 0..MaxItems }

\* link.split('/').pop(): the text after the last slash
RECURSIVE lastSegment(_)
lastSegment(link) ==
    IF \E k \in 1..Len(link) : link[k] = "/"
    THEN lastSegment(Tail(link))
    ELSE link

\* RSSFirestoreSync.extractSlugFromLink: the last segment of the link, null
\* when the link or the segment is empty
extractSlugFromLink(link) ==
    IF Truthy(link)
    THEN IF Truthy(lastSegment(link)) THEN Def(lastSegment(link)) ELSE Undefined
    ELSE Undefined

\* RSSFirestoreSync.extractRSSFields, the slug: null unless the item has a
\* <link> with text, then the slug of the trimmed text
extractRSSFields(item) ==
    [ slug |-> IF \E text \in item.link : Truthy(text)
               THEN UNION { extractSlugFromLink(trim(text)) : text \in item.link }
               ELSE Undefined ]

\* the value of a slug that is not null
TheSlug(slug) == CHOOSE text \in slug : TRUE

\* `item-${i + 1}`
ItemLabel(i) ==
    <<"i","t","e","m","-">> \o <<Digits[i + 2]>>

\* RSSFirestoreSync as constructed: the field initialisers of stats and
\* processedSlugs
RSSFirestoreSync_new ==
    [ stats |-> [ total_items |-> 0, new_items |-> 0, updated_items |-> 0,
                  skipped_items |-> 0, errors |-> 0 ],
      processedSlugs |-> [ new_slugs |-> <<>>, updated_slugs |-> <<>>,
                           skipped_slugs |-> <<>>, error_slugs |-> <<>> ] ]

\* processRSSItems, the item without a slug, were it counted and not listed
processRSSItems_noSlug_unlisted(r) ==
    [ r EXCEPT !.stats.errors = @ + 1 ]

\* processRSSItems, the item without a slug: counted as an error under the
\* label of its position
processRSSItems_noSlug(r) ==
    [ r EXCEPT !.stats.errors = @ + 1,
               !.processedSlugs.error_slugs = Append(@, ItemLabel(r.i)) ]

\* processRSSItems, the catch of the loop body: the error is counted, the
\* fields are read again, and the slug is listed if there is one, the label
\* of the position if the second reading throws
processRSSItems_catch(r, item) ==
    IF item.throws
    THEN [ r EXCEPT !.stats.errors = @ + 1,
                    !.processedSlugs.error_slugs = Append(@, ItemLabel(r.i)) ]
    ELSE IF extractRSSFields(item).slug # Undefined
         THEN [ r EXCEPT !.stats.errors = @ + 1,
                         !.processedSlugs.error_slugs =
                             Append(@, TheSlug(extractRSSFields(item).slug)) ]
         ELSE [ r EXCEPT !.stats.errors = @ + 1 ]

\* processRSSItems, the body of the loop for the item at index r.i: exists is
\* what checkSlugExists answered, contentChanged what checkContentChanged
\* answered (both catch their own errors and answer false)
processRSSItems_item(r, exists, contentChanged) ==
    LET item == r.items[r.i + 1]
        slug == extractRSSFields(item).slug
    IN IF item.throws THEN processRSSItems_catch(r, item)
       ELSE IF slug = Undefined THEN processRSSItems_noSlug(r)
       ELSE IF ~exists
            THEN [ r EXCEPT !.stats.new_items = @ + 1,
                            !.processedSlugs.new_slugs = Append(@, TheSlug(slug)) ]
       ELSE IF contentChanged
            THEN [ r EXCEPT !.stats.updated_items = @ + 1,
                            !.processedSlugs.updated_slugs = Append(@, TheSlug(slug)) ]
            ELSE [ r EXCEPT !.stats.skipped_items = @ + 1,
                            !.processedSlugs.skipped_slugs = Append(@, TheSlug(slug)) ]

\* the state of the pages, which the feed analysis leaves alone
consoleVars == <<durVars, ledgerVars, selectedPayment, dialog, processing, pc, call,
                 sessionVars, flightVars, claimsVars, extVars>>

\* syncRSSFeed up to the loop of processRSSItems: a new RSSFirestoreSync, the
\* feed fetched and parsed, total_items set to the number of its items
SyncRSSFeed(items) ==
    /\ rss.pc \in {"idle", "done"}
    /\ rss' = [ pc |-> "loop", items |-> items, i |-> 0,
                stats |-> [ RSSFirestoreSync_new.stats EXCEPT
                              !.total_items = Len(items) ],
                processedSlugs |-> RSSFirestoreSync_new.processedSlugs ]
    /\ last' = NoResult
    /\ UNCHANGED consoleVars

\* processRSSItems, one turn of the loop
ProcessRSSItem(exists, contentChanged) ==
    /\ rss.pc = "loop"
    /\ rss.i < Len(rss.items)
    /\ rss' = [ processRSSItems_item(rss, exists, contentChanged) EXCEPT !.i = rss.i + 1 ]
    /\ last' = NoResult
    /\ UNCHANGED consoleVars

\* processRSSItems, the end of the loop: return this.stats
ProcessRSSItemsReturn ==
    /\ rss.pc = "loop"
    /\ rss.i = Len(rss.items)
    /\ rss' = [ rss EXCEPT !.pc = "done" ]
    /\ last' = NoResult
    /\ UNCHANGED consoleVars

\* the feed analysis, one run after another
RSSNext ==
    \/ \E items \in FeedsGiven : SyncRSSFeed(items)
    \/ \E exists \in BOOLEAN, contentChanged \in BOOLEAN :
          ProcessRSSItem(exists, contentChanged)
    \/ ProcessRSSItemsReturn

\* the session and the admin route on useAdminAuth
GuardNext ==
    \/ \E user \in Sessions : SignIn(user)
    \/ SignOut
    \/ OnAuthStateChanged
    \/ AdminAuthEffect
    \/ \E user \in Sessions : AdminAuthCheckResolves(user)

\* customClaimsService.getAuthToken: what it can return for the session as it
\* is now: null when nobody is signed in or getIdToken throws, or the ID token
getAuthToken ==
    {Null} \cup { user.idToken : user \in auth_currentUser }

\* customClaimsService set/update/deleteCustomClaims up to the second await:
\* const token = await getAuthToken()
ClaimsCallStart(op, userId, body) ==
    /\ claimsCall.pc = "idle"
    /\ \E token \in getAuthToken :
          claimsCall' = [ pc |-> "role", op |-> op, userId |-> userId,
                          body |-> body, token |-> token,
                          caller |-> auth_currentUser ]
    /\ last' = NoResult
    /\ UNCHANGED <<requests, snapshot, authVars, durVars, ledgerVars,
                   selectedPayment, dialog, processing, pc, call>>

\* a call of the service from outside the claims page
ClaimsCallToken(op, userId, body) ==
    /\ Len(requests) < MaxRequests
    /\ ClaimsCallStart(op, userId, body)
    /\ UNCHANGED extVars

\* the requests kept on record: the latest MaxRequests
Recent(sent) == IF Len(sent) > MaxRequests THEN Tail(sent) ELSE sent

\* CustomClaimsAdmin.handleEdit, and the fields the operator types into the
\* dialog; the dialog is modal, the Edit buttons are behind it while it is open
HandleEdit(user, form) ==
    /\ claimsCall.pc = "idle"
    /\ ~claimsPage.showEditDialog
    /\ claimsPage' = [ PageIdle EXCEPT !.selectedUser = Def(user), !.editForm = form,
                                        !.showEditDialog = TRUE ]
    /\ last' = NoResult
    /\ UNCHANGED <<claimsVars, authVars, durVars, ledgerVars, otherVars,
                   selectedPayment, dialog, processing, pc, call>>

\* CustomClaimsAdmin.handleUpdate up to the first await inside
\* updateCustomClaims(selectedUser.user_id, editForm)
HandleUpdate ==
    /\ claimsPage.showEditDialog
    /\ ~claimsPage.processing
    /\ \E user \in claimsPage.selectedUser :
          ClaimsCallStart("update", user, claimsPage.editForm)
    /\ claimsPage' = [ claimsPage EXCEPT !.processing = TRUE, !.awaiting = TRUE ]
    /\ UNCHANGED otherVars

\* CustomClaimsAdmin.handleUpdate from the return of updateCustomClaims: on
\* success the dialog closes and the selection is cleared, in the catch both
\* are kept; finally setProcessing(false)
handleUpdate_settle(page, outcome) ==
    IF ~page.awaiting THEN page
    ELSE IF outcome = "ok" THEN PageIdle
    ELSE [ page EXCEPT !.processing = FALSE, !.awaiting = FALSE, !.failed = TRUE ]

\* what a finished claims call returned or threw
ClaimsResult(outcome) ==
    [ op |-> claimsCall.op, entry |-> "customClaimsService", outcome |-> outcome ]

\* customClaimsService set/update/deleteCustomClaims from
\* const userRole = await getUserRoleFromToken(), which reads the session again,
\* through the role check to fetch()
ClaimsCallGate ==
    /\ claimsCall.pc = "role"
    /\ \E token2 \in getAuthToken :
         LET role == IF token2 = Null THEN Undefined ELSE getUserRoleFromJWT(token2)
         IN  IF role # Def("admin")
             THEN /\ last' = ClaimsResult("access_denied")
                  /\ claimsCall' = [ pc |-> "idle" ]
                  /\ claimsPage' = handleUpdate_settle(claimsPage, "access_denied")
                  /\ UNCHANGED requests
             ELSE /\ requests' = Recent(Append(requests,
                         [ op |-> claimsCall.op,
                           caller |-> claimsCall.caller,
                           authorization |-> claimsCall.token,
                           user_id |-> claimsCall.userId,
                           body |-> IF claimsCall.op = "delete" THEN claimsCall.body
                                    ELSE claimsWithRole(claimsCall.body, "admin") ]))
                  /\ claimsCall' = [ claimsCall EXCEPT !.pc = "fetch" ]
                  /\ last' = NoResult
                  /\ UNCHANGED claimsPage
    /\ UNCHANGED <<snapshot, authVars, durVars, ledgerVars, otherVars,
                   selectedPayment, dialog, processing, pc, call>>

\* the response of the authorization service: response.ok or not
ClaimsResponse ==
    /\ claimsCall.pc = "fetch"
    /\ LET request == requests[Len(requests)]
       IN \/ /\ snapshot' = [ snapshot EXCEPT ![request.user_id] =
                                ServerApply(request.op, @, request.body) ]
             /\ last' = ClaimsResult("ok")
             /\ claimsPage' = handleUpdate_settle(claimsPage, "ok")
          \/ /\ \E held \in ServerApplyPart(request.op, snapshot[request.user_id], request.body) :
                   snapshot' = [ snapshot EXCEPT ![request.user_id] = held ]
             /\ last' = ClaimsResult("failed")
             /\ claimsPage' = handleUpdate_settle(claimsPage, "failed")
    /\ claimsCall' = [ pc |-> "idle" ]
    /\ UNCHANGED <<requests, authVars, durVars, ledgerVars, otherVars,
                   selectedPayment, dialog, processing, pc, call>>

\* the steps of the multi-step synchronization of a payment
ProcessSteps == {"step1", "step2", "step3"}

\* the service's answer to POST /process-payment: every step is listed as
\* completed, as failed or as not processed
ProcessOutcomes ==
    UNION { { [ status |-> IF completed = ProcessSteps THEN "success" ELSE "partial_failure",
                steps_completed |-> completed,
                steps_failed |-> failed,
                steps_not_processed |-> ProcessSteps \ (completed \cup failed) ] :
              failed \in SUBSET (ProcessSteps \ completed) } :
            completed \in SUBSET ProcessSteps }

\* a caller that reads a response with a failed step as done all the same
processPayment_collapsing(result) ==
    [ result EXCEPT !.status = "success", !.steps_completed = ProcessSteps ]

\* a caller that keeps the status of the answer and forgets the steps that
\* failed or were not processed
processPayment_forgetting(result) ==
    [ result EXCEPT !.steps_failed = {}, !.steps_not_processed = {} ]

\* PaymentAdmin.processPayment: const result = await response.json(); return result
processPayment_return(result) == result

\* what a finished processPayment returned or threw
ProcessResult(outcome) == [ op |-> "processPayment", entry |-> "PaymentAdmin", outcome |-> outcome ]

\* PaymentAdmin.processPayment up to await user.getIdToken(): auth.currentUser
\* is read, and without a user the call throws
ProcessPayment(paymentData) ==
    /\ claimsCall.pc = "idle"
    /\ Len(requests) < MaxRequests
    /\ IF auth_currentUser = Undefined
       THEN /\ last' = ProcessResult("not_authenticated")
            /\ UNCHANGED claimsCall
       ELSE /\ claimsCall' = [ pc |-> "process_token", op |-> "processPayment",
                               body |-> paymentData, caller |-> auth_currentUser ]
            /\ last' = NoResult
    /\ UNCHANGED <<requests, snapshot, authVars, durVars, extVars, ledgerVars,
                   selectedPayment, dialog, processing, pc, call>>

\* PaymentAdmin.processPayment from the token to fetch(): getIdToken() of the
\* user read before answers or throws
ProcessPaymentToken ==
    /\ claimsCall.pc = "process_token"
    /\ \/ /\ \E user \in claimsCall.caller :
                requests' = Recent(Append(requests,
                    [ op |-> "processPayment", caller |-> claimsCall.caller,
                      authorization |-> user.idToken,
                      user_id |-> claimsCall.body.user_id,
                      body |-> claimsCall.body ]))
          /\ claimsCall' = [ claimsCall EXCEPT !.pc = "process_fetch" ]
          /\ last' = NoResult
       \/ /\ last' = ProcessResult("thrown")
          /\ claimsCall' = [ pc |-> "idle" ]
          /\ UNCHANGED requests
    /\ UNCHANGED <<snapshot, authVars, durVars, extVars, ledgerVars,
                   selectedPayment, dialog, processing, pc, call>>

\* PaymentAdmin.processPayment from the response: response.ok and the outcome
\* is returned, or the error of the response is thrown
ProcessPaymentResponse ==
    /\ claimsCall.pc = "process_fetch"
    /\ \/ \E result \in ProcessOutcomes :
             last' = [ op |-> "processPayment", entry |-> "PaymentAdmin",
                       outcome |-> "returned", answered |-> result,
                       result |-> processPayment_return(result) ]
       \/ last' = ProcessResult("thrown")
    /\ claimsCall' = [ pc |-> "idle" ]
    /\ UNCHANGED <<requests, snapshot, authVars, durVars, extVars, ledgerVars,
                   selectedPayment, dialog, processing, pc, call>>

\* the session and processPayment
ProcessNext ==
    \/ \E user \in Sessions : SignIn(user)
    \/ SignOut
    \/ ProcessPayment([ payment_id |-> "pay_A", user_id |-> "u1", plan_name |-> PlanPremiumOnly ])
    \/ ProcessPaymentToken
    \/ ProcessPaymentResponse

\* the session and what the admin route shows
RouteNext ==
    \/ \E user \in Sessions : SignIn(user)
    \/ SignOut
    \/ OnAuthStateChanged
    \/ CheckUserRole

\* customClaimsService.createCustomClaimsFromPayment: planDurations[plan_name] || 1
planDurations(plan_name) ==
    IF plan_name = PlanPremiumMonthly449 THEN 1
    ELSE IF plan_name = PlanPremiumYearly4308 THEN 12
    ELSE IF plan_name = PlanAIFundamentals30000 THEN 12
    ELSE IF plan_name = PlanCodePremiumMonthly THEN 1
    ELSE IF plan_name = PlanCodePremiumYearly THEN 12
    ELSE IF plan_name = PlanCodeGenAI THEN 12
    ELSE 1

\* customClaimsService.createCustomClaimsFromPayment: planMapping[plan_name] || 'PREMIUM_MONTHLY'
planMapping(plan_name) ==
    IF plan_name = PlanPremiumMonthly449 THEN PlanCodePremiumMonthly
    ELSE IF plan_name = PlanPremiumYearly4308 THEN PlanCodePremiumYearly
    ELSE IF plan_name = PlanAIFundamentals30000 THEN PlanCodeGenAI
    ELSE IF plan_name \in {PlanCodePremiumMonthly, PlanCodePremiumYearly, PlanCodeGenAI}
        THEN plan_name
    ELSE PlanCodePremiumMonthly

\* customClaimsService.createCustomClaimsFromPayment, with `now` its new Date()
createCustomClaimsFromPayment(payment, now) ==
    [ f \in {"is_premium", "plan_name", "start_date", "end_date", "role"} |->
        IF f = "is_premium" THEN "true"
        ELSE IF f = "plan_name" THEN planMapping(payment.plan_name)
        ELSE IF f = "start_date" THEN now
        ELSE IF f = "end_date" THEN setMonthPlus(now, planDurations(payment.plan_name))
        ELSE "user" ]

\* the claims of a payment's subject are made from the payment and set, on the
\* day the entitlement was made or on the day after
SynchronizeFromPayment(later) ==
    /\ dur_out # NoResult
    /\ Len(requests) < MaxRequests
    /\ \E s \in Subjects :
          ClaimsCallStart("set", s,
              createCustomClaimsFromPayment(dur_in,
                  IF later THEN NextDay(SecondSample(dur_in)) ELSE SecondSample(dur_in)))
    /\ UNCHANGED extVars

\* activation of an entitlement, then the synchronization of its claims
SyncNext ==
    \/ DurationInUserPlanService
    \/ DurationInPaymentService
    \/ \E later \in BOOLEAN : SynchronizeFromPayment(later)
    \/ ClaimsCallGate
    \/ ClaimsResponse

\* the claims page and the claims service
EditForms == ClaimsGiven \cup PartialClaimsGiven
RetryNext ==
    \/ \E s \in Subjects, form \in EditForms : HandleEdit(s, form)
    \/ HandleUpdate
    \/ ClaimsCallGate
    \/ ClaimsResponse

\* the session and the claims service
ClaimsNext ==
    \/ \E user \in Sessions : SignIn(user)
    \/ SignOut
    \/ \E s \in Subjects, body \in ClaimsGiven : ClaimsCallToken("set", s, body)
    \/ \E s \in Subjects, body \in PartialClaimsGiven : ClaimsCallToken("update", s, body)
    \/ \E s \in Subjects, fields \in FieldsGiven : ClaimsCallToken("delete", s, fields)
    \/ ClaimsCallGate
    \/ ClaimsResponse

-----------------------------------------------------------------------------
\* no window inference is running
DurIdle ==
    /\ dur_in = Null
    /\ dur_out = NoResult

InitDuration == DurInit /\ LedgerInit /\ AuthInit
SpecDuration == InitDuration /\ [][DurNext]_vars

\* the ledger, the verification gate and the entitlement store
Init == DurIdle /\ LedgerInit /\ AuthInit
Next == LedgerNext
Spec == Init /\ [][Next]_vars

\* the session and the admin route
InitRoute == DurIdle /\ LedgerInit /\ AuthInit
SpecRoute == InitRoute /\ [][RouteNext]_vars

\* the session and the claims service
InitClaims == DurIdle /\ LedgerInit /\ AuthInit
SpecClaims == InitClaims /\ [][ClaimsNext]_vars

\* the claims page in an administrator's session: the operator presses Update
\* again while the dialog shows a failed update, the call gets its credential
\* again and again, and the service accepts a request that is sent again and again
InitRetry == DurIdle /\ LedgerInit /\ AuthStart(Def(User("root", TRUE)))
RetryFairness ==
    /\ WF_vars(HandleUpdate)
    /\ WF_vars(ClaimsCallGate)
    /\ SF_vars(ClaimsCallGate /\ claimsCall'.pc = "fetch")
    /\ WF_vars(ClaimsResponse)
    /\ SF_vars(ClaimsResponse /\ last'.outcome = "ok")
SpecRetry == InitRetry /\ [][RetryNext]_vars /\ RetryFairness

\* the reconciliation read path on a ledger
InitDrift == DurIdle /\ DriftLedger /\ AdminIdle /\ AuthInit
SpecDrift == InitDrift /\ [][DriftNext]_vars

\* the update of a payment's details on a ledger
InitEdit == DurIdle /\ DriftLedger /\ AdminIdle /\ AuthInit
SpecEdit == InitEdit /\ [][EditNext]_vars

\* the session and the multi-step synchronization of a payment
InitProcess == DurIdle /\ LedgerInit /\ AuthInit
SpecProcess == InitProcess /\ [][ProcessNext]_vars

\* a payment's entitlement and the synchronization of its claims, in an
\* administrator's session
InitSync == DurInit /\ LedgerInit /\ AuthStart(Def(User("root", TRUE)))
SpecSync == InitSync /\ [][SyncNext]_vars

\* the writers of the ledger's payments: submission, the two dialogs of one
\* operator's page and the payment service called for either operator
StampNext ==
    \/ \E u \in Submitters, r \in PaymentRefs, a \in Amounts, n \in LedgerPlanNames :
          SavePaymentDetails(u, r, a, n)
    \/ \E id \in PayIds, which \in {"verify", "reject"} : OpenDialog("op1", id, which)
    \/ CancelDialog("op1")
    \/ \E notes \in NotesTyped : HandleVerifyPayment("op1", notes)
    \/ \E notes \in NotesTyped : HandleRejectPayment("op1", notes)
    \/ \E o \in Operators, id \in PayIds, status \in {"success", "rejected"},
          remarks \in RemarksGiven :
          UpdatePaymentStatus(o, id, status, remarks)
    \/ \E o \in Operators : CreateUserPlanFromPayment(o)
SpecStamp == Init /\ [][StampNext]_vars

\* every operation that persists a status: the writers of the payments and
\* the writers of the entitlements, on one operator's page and in the services.
\* The notes, the remarks and the amount are one value each: no status that
\* is written depends on them
WireNext ==
    \/ \E u \in Submitters, r \in PaymentRefs, n \in LedgerPlanNames :
          SavePaymentDetails(u, r, PremiumMonthlyAmount, n)
    \/ \E id \in PayIds, which \in {"verify", "reject"} : OpenDialog("op1", id, which)
    \/ HandleVerifyPayment("op1", <<" ","o","k">>)
    \/ HandleRejectPayment("op1", <<" ","o","k">>)
    \/ \E id \in PayIds, status \in {"success", "rejected"} :
          UpdatePaymentStatus("op1", id, status, <<>>)
    \/ CreateUserPlanFromPayment("op1")
    \/ \E id \in PayIds, readOk \in BOOLEAN : HandleAddToUserPlans("op1", id, readOk)
    \/ AddPaymentToUserPlansInsert("op1")
    \/ \E i \in 1..MaxClock, status \in UserPlanStatus : UpdatePlan(i, status)
SpecWire == Init /\ [][WireNext]_vars

\* the session and the admin route on useAdminAuth
InitGuard == DurIdle /\ LedgerInit /\ AuthInit
SpecGuard == InitGuard /\ [][GuardNext]_vars

\* the dialogs' writes as calls that settle later
InitFlight == DurIdle /\ LedgerInit /\ AuthInit
SpecFlight == InitFlight /\ [][FlightNext]_vars

\* the feed analysis
InitRSS == DurIdle /\ LedgerInit /\ AuthInit
SpecRSS == InitRSS /\ [][RSSNext]_vars

\* the calls of the external services in an administrator's session.  A step
\* of the client that waits for the session's credential is taken when it can
\* be; nothing makes the service answer, and fetch() is given no signal and
\* no timer, so nothing but the answer ends the wait
CallsNext ==
    \/ \E s \in Subjects, body \in ClaimsGiven : ClaimsCallToken("set", s, body)
    \/ \E s \in Subjects, body \in PartialClaimsGiven : ClaimsCallToken("update", s, body)
    \/ \E s \in Subjects, fields \in FieldsGiven : ClaimsCallToken("delete", s, fields)
    \/ ClaimsCallGate
    \/ ClaimsResponse
    \/ ProcessPayment([ payment_id |-> "pay_A", user_id |-> "u1", plan_name |-> PlanPremiumOnly ])
    \/ ProcessPaymentToken
    \/ ProcessPaymentResponse
InitCalls == DurIdle /\ LedgerInit /\ AuthStart(Def(User("root", TRUE)))
CallsFairness ==
    /\ WF_vars(ClaimsCallGate)
    /\ WF_vars(ProcessPaymentToken)
SpecCalls == InitCalls /\ [][CallsNext]_vars /\ CallsFairness

(***************************************************************************)
(* The verification gate and the entitlement store: properties             *)
(***************************************************************************)

\* a plan's dedup key: (payment reference, amount)
PlanKey(plan) == <<plan.paymentId, plan.amount>>

\* C1: a payment's status changes only from pending, to success or to rejected;
\* success and rejected are final, whatever view of the payment the writer holds.
C1_StatusOnlyLeavesPending ==
    [][\A id \in PayIds :
          (payments[id] # NoDoc /\ payments'[id].status # payments[id].status)
             => /\ payments[id].status = "pending"
                /\ payments'[id].status \in {"success", "rejected"}]_vars

\* C2: the store never holds two entitlement records with the same dedup key
\* (payment reference, amount), through whichever path the records came.
C2_OneRecordPerKey ==
    \A i, j \in 1..Len(userPlans) :
        i # j => PlanKey(userPlans[i]) # PlanKey(userPlans[j])

\* C3: an activation called when a record with its key is already in the store
\* returns the duplicate result (and so inserts nothing).
C3_SecondActivateIsDuplicate ==
    (last # NoResult /\ last.op = "add" /\ last.existedAtCheck)
        => last.outcome = "duplicate"

\* C4: of the activations of one key whose existence check read the store, at
\* most one inserts a record, however the calls interleave.
C4_ConcurrentActivateOneRecord ==
    \A i, j \in 1..Len(userPlans) :
        ( /\ i < j
          /\ planSource[i].by = "addPaymentToUserPlans"
          /\ planSource[j].by = "addPaymentToUserPlans"
          /\ planSource[i].readOk /\ planSource[j].readOk )
        => PlanKey(userPlans[i]) # PlanKey(userPlans[j])

\* C5: every entitlement record was inserted while its payment's status was
\* success.
C5_EntitlementOnlyFromSuccess ==
    \A i \in 1..Len(userPlans) : planSource[i].status = "success"

\* C6: a verify of a payment that is not pending does not succeed: it writes
\* nothing.
C6_VerifyNeedsPending ==
    (last # NoResult /\ last.op = "verify" /\ last.statusBefore # "pending")
        => last.outcome # "ok"

\* C7: a reject whose reason is empty or whitespace does not succeed, on any
\* entry point that sets rejected: it writes nothing.
C7_RejectNeedsReason ==
    (last # NoResult /\ last.op = "reject" /\ last.blank)
        => last.outcome # "ok"

(***************************************************************************)
(* The claims service and the admin route: properties                      *)
(***************************************************************************)

\* the role the credential of a session carries, as the service derives it
C8_RoleOf(session) ==
    IF session = Undefined THEN Undefined
    ELSE getUserRoleFromJWT((CHOOSE user \in session : TRUE).idToken)

\* C8: no request is sent for a set, update or delete call made with a
\* credential whose role is not admin (no credential and an undecodable token
\* included): every request sent belongs to a call made in an admin session.
C8_NoRequestFromNonAdmin ==
    \A i \in 1..Len(requests) : C8_RoleOf(requests[i].caller) = Def("admin")

\* C9: the admin route shows its protected children only to a signed-in user
\* whose credential holds the admin role.
C9_OnlyAdminsSeeDashboard ==
    AdminRoute = "children"
        => (currentUser # Undefined /\ C8_RoleOf(currentUser) = Def("admin"))

(***************************************************************************)
(* Duration inference: properties                                          *)
(***************************************************************************)

\* the rule of precedence as the specification states it: the first match over
\* the lower-cased name wins
C10_Window(name, amount) ==
    IF includes(name, Kw_monthly) THEN "month"
    ELSE IF includes(name, Kw_yearly) \/ includes(name, Kw_year) THEN "year"
    ELSE IF includes(name, Kw_premium)
        THEN (IF amount = 449 THEN "month" ELSE IF amount = 4308 THEN "year" ELSE "year")
    ELSE IF includes(name, Kw_ai_fundamentals) \/ includes(name, Kw_genai) THEN "year"
    ELSE "year"

\* the expiry of a finished inference is its clock sample moved by one month
C10_PlusOneMonth == dur_out.expiryDate = setMonthPlus(SecondSample(dur_in), 1)
\* the expiry of a finished inference is its clock sample moved by one year
C10_PlusOneYear == dur_out.expiryDate = setFullYearPlus(SecondSample(dur_in), 1)

\* C10: both implementations of the inference follow the first-match-wins
\* precedence over the lower-cased plan name (monthly, then yearly or year, then
\* premium by amount, then ai fundamentals or genai, then the default of a year),
\* and give the four named plans their windows: a month for
\* ("Premium - Monthly ($449)", 449), a year for ("Premium - Yearly ($4308)", 4308),
\* ("AI Fundamentals ($30000)", 30000) and ("Unknown Plan", 999).
C10_DurationPrecedence ==
    dur_out # NoResult =>
        /\ IF C10_Window(toLowerCase(dur_in.plan_name), dur_in.amount) = "month"
           THEN C10_PlusOneMonth /\ ~C10_PlusOneYear
           ELSE C10_PlusOneYear /\ ~C10_PlusOneMonth
        /\ (dur_in.plan_name = PlanPremiumMonthly449 /\ dur_in.amount = 449)
              => C10_PlusOneMonth
        /\ (dur_in.plan_name = PlanPremiumYearly4308 /\ dur_in.amount = 4308)
              => C10_PlusOneYear
        /\ (dur_in.plan_name = PlanAIFundamentals30000 /\ dur_in.amount = 30000)
              => C10_PlusOneYear
        /\ (dur_in.plan_name = PlanUnknown /\ dur_in.amount = 999)
              => C10_PlusOneYear

\* C10, its case: a name that holds both "premium" and "monthly", paid with the
\* yearly premium amount on 31 January 2024, has been given the month that the
\* earlier rule grants (31 February carries over to 2 March)
C10_Witness ==
    /\ dur_out # NoResult
    /\ dur_out.by = "addPaymentToUserPlans"
    /\ dur_in.plan_name = PlanCodePremiumMonthly
    /\ dur_in.amount = 4308
    /\ dur_in.now = [y |-> 2024, m |-> 0, d |-> 31]
    /\ ~dur_in.second
    /\ dur_out.expiryDate = [y |-> 2024, m |-> 2, d |-> 2]

\* C16: the entitlement store changes only in a step of an activation an
\* operator triggered (handleAddToUserPlans -> addPaymentToUserPlans): a
\* verification or a rejection leaves it as it is.
C16_OnlyActivationWritesEntitlements ==
    [][userPlans' # userPlans => \E o \in Operators : pc[o] = "add_insert"]_vars

\* C17: once a payment is in the ledger, its amount, its payment reference, its
\* plan name and its submitter are never changed.
C17_SubmittedFieldsFixed ==
    [][\A id \in DOMAIN payments :
          payments[id] # NoDoc =>
            /\ payments'[id] # NoDoc
            /\ payments'[id].amount = payments[id].amount
            /\ payments'[id].payment_id = payments[id].payment_id
            /\ payments'[id].plan_name = payments[id].plan_name
            /\ payments'[id].user_id = payments[id].user_id
            /\ payments'[id].user_email = payments[id].user_email]_vars

\* C18: a call that returns success has made its writes: a verification by
\* updatePaymentStatus that answers success has inserted the entitlement it
\* goes on to create.
C18_SuccessMeansWritten ==
    [][\A o \in Operators :
          (pc[o] = "create_plan" /\ pc'[o] = "idle" /\ last'.outcome = "ok")
             => userPlans' # userPlans]_vars

(***************************************************************************)
(* The claims page and the claims synchronizer: properties                 *)
(***************************************************************************)

\* the claims hold every field of the form with the form's value
C11_Target(form, claims) ==
    \A f \in DOMAIN form : f \in DOMAIN claims /\ claims[f] = form[f]

\* C11: once an update of a subject's claims has failed and the operator keeps
\* resubmitting the same form, the subject's snapshot comes to hold the values
\* of the form.
C11_RetryConverges ==
    \A s \in Subjects, form \in EditForms :
        (claimsPage.failed /\ claimsPage.selectedUser = Def(s) /\ claimsPage.editForm = form)
            ~> C11_Target(form, snapshot[s])

\* the request the service accepted in the last step
C12_Accepted ==
    /\ \E op \in {"set", "update", "delete"} :
          last = [ op |-> op, entry |-> "customClaimsService", outcome |-> "ok" ]
    /\ requests # <<>>

C13_SamePlan(claimName, planName) ==
    \/ claimName = planName
    \/ /\ planName \in {PlanPremiumMonthly449, PlanPremiumYearly4308, PlanAIFundamentals30000}
       /\ claimName = planMapping(planName)

\* C13: once the synchronization of an entitlement's claims has succeeded, the
\* snapshot of the subject is premium and holds the plan, the start date and
\* the end date of the entitlement.
C13_SnapshotReflectsEntitlement ==
    (last = [ op |-> "set", entry |-> "customClaimsService", outcome |-> "ok" ]
        /\ dur_out # NoResult)
    => \A s \in Subjects :
         /\ snapshot[s].is_premium = "true"
         /\ C13_SamePlan(snapshot[s].plan_name, dur_in.plan_name)
         /\ snapshot[s].start_date = dur_out.startDate
         /\ snapshot[s].end_date = dur_out.expiryDate

(***************************************************************************)
(* The reconciliation read path: properties                                *)
(***************************************************************************)

\* the payments of the ledger
C14_Payments == { WithId(id) : id \in { i \in DOMAIN payments : payments[i] # NoDoc } }

\* the read path has run and its read of the entitlement store succeeded
C14_Ran == listener = [ pc |-> "done", read |-> "ok" ]

\* C14: after the read path has run, every success payment without an
\* entitlement of the same dedup key is reported as missing (its key is in the
\* map, with false), and no key reported is that of only pending or rejected
\* payments.
C14_MissingActivationReported ==
    C14_Ran =>
        /\ \A payment \in C14_Payments :
              (payment.status = "success"
                 /\ ~KeyExists(userPlans, payment.payment_id, toString(payment.amount)))
              => LET key == DriftKey(payment.payment_id, toString(payment.amount))
                 IN  key \in DOMAIN paymentExistsInUserPlans
                       /\ ~paymentExistsInUserPlans[key]
        /\ \A key \in DOMAIN paymentExistsInUserPlans :
              \E payment \in C14_Payments :
                  /\ payment.status = "success"
                  /\ key = DriftKey(payment.payment_id, toString(payment.amount))

\* the claims the authorization service holds for a user: none when it has
\* never been synchronized
C15_ClaimsOf(userId) ==
    IF userId \in DOMAIN snapshot THEN snapshot[userId] ELSE NoClaims

\* the claims do not say what the entitlement says
C15_Disagrees(plan, claims) ==
    \/ {"is_premium", "end_date"} \ DOMAIN claims # {}
    \/ /\ {"is_premium", "end_date"} \subseteq DOMAIN claims
       /\ (claims.is_premium # "true" \/ claims.end_date # plan.expiryDate)

\* C15: after the read path has run, every active entitlement whose subject's
\* claims disagree with it is reported as exactly one stale-claims case.
C15_StaleClaimsReported ==
    C14_Ran =>
        \A i \in 1..Len(userPlans) :
            (userPlans[i].status = "active"
               /\ C15_Disagrees(userPlans[i], C15_ClaimsOf(userPlans[i].userId)))
            => Cardinality({ case \in listDrift.stale_claims : case = PlanKey(userPlans[i]) }) = 1

\* C19: a step of the read path (the listener's callback, checkPaymentsInUserPlans
\* with its read succeeding or throwing) leaves the ledger, the entitlement
\* store and the claims as they are, and sends no request.
C19_ReadPathHasNoEffect ==
    [][listener' # listener =>
          /\ payments' = payments
          /\ userPlans' = userPlans
          /\ snapshot' = snapshot
          /\ requests' = requests]_vars

\* the read path has run on a ledger with an entitlement, and its read threw
C19_Witness ==
    /\ listener = [ pc |-> "done", read |-> "error" ]
    /\ userPlans # <<>>
    /\ paymentExistsInUserPlans = NoKeys

(***************************************************************************)
(* The multi-step synchronization: properties                              *)
(***************************************************************************)

\* processPayment has just returned an outcome
C20_Returned ==
    /\ DOMAIN last = {"op", "entry", "outcome", "answered", "result"}
    /\ last.op = "processPayment"
    /\ last.outcome = "returned"

C21_Dispatched == claimsCall.pc \in {"fetch", "process_fetch"}

\* C21: every dispatched external call (set, update, delete claims;
\* processPayment) eventually returns to its caller, with a result or with a
\* failure, also when the service never answers
C21_DispatchedCallReturns == C21_Dispatched ~> (claimsCall.pc = "idle")

\* the expiry the rule chain of the service that ran gives for a clock reading
C22_Expiry(now) ==
    IF dur_out.by = "addPaymentToUserPlans"
    THEN addPaymentToUserPlans_expiryDate(dur_in.plan_name, dur_in.amount, now)
    ELSE createUserPlanFromPayment_expiryDate(dur_in.plan_name, dur_in.amount, now)

\* C22: the window inference is a function of (planName, amount, now): the
\* start date is the one reading of the clock it is given and the expiry date
\* is that same reading moved by the inferred window, whatever the clock does
\* while it runs
C22_DurationIsFunctionOfNow ==
    dur_out # NoResult =>
        /\ dur_out.startDate = dur_in.now
        /\ dur_out.expiryDate = C22_Expiry(dur_out.startDate)

\* C23: a step that takes a pending payment to success leaves it with a
\* verifier identity, a verification timestamp and non-empty notes, whichever
\* entry point made the step
C23_VerifiedRecordComplete ==
    [][ \A id \in PayIds :
          ( /\ payments[id] # NoDoc
            /\ payments[id].status = "pending"
            /\ payments'[id].status = "success" )
          => /\ payments'[id].verified_by # Undefined
             /\ payments'[id].verified_at # Undefined
             /\ Truthy(payments'[id].remarks) ]_vars

\* C24: a payment that carries a verifier identity or a verification
\* timestamp has status success or rejected; a pending payment carries neither
C24_VerifierOnlyOnDecided ==
    \A id \in PayIds :
        payments[id] # NoDoc =>
            ( (payments[id].verified_by # Undefined \/ payments[id].verified_at # Undefined)
              => payments[id].status \in {"success", "rejected"} )

\* a payment was verified and then rejected through the service without
\* notes: it carries both stamps and is rejected
C24_Witness ==
    \E id \in PayIds :
        /\ payments[id] # NoDoc
        /\ payments[id].status = "rejected"
        /\ payments[id].verified_by # Undefined
        /\ payments[id].verified_at # Undefined
        /\ last = GateResult("reject", "updatePaymentStatus", "success", TRUE, "ok")

C26_Inserted == userPlans'[Len(userPlans')]

\* the payment the inserted entitlement was made from, as the ledger holds it
\* when the insertion is made
C26_Source == payments[planSource'[Len(planSource')].id]

\* C26: an activation that succeeds inserts a record with status active, the
\* activation time as start date, and the provenance of the source payment:
\* subject id and email, plan name, amount, payment reference, payment method,
\* remarks and verifier fields as the payment has them at that time
C26_ProvenanceCopied ==
    [][ Len(userPlans') = Len(userPlans) + 1 =>
          /\ C26_Inserted.status = "active"
          /\ C26_Inserted.startDate = DayOfTick(clock')
          /\ C26_Inserted.userId = C26_Source.user_id
          /\ C26_Inserted.userEmail = C26_Source.user_email
          /\ C26_Inserted.planName = C26_Source.plan_name
          /\ C26_Inserted.amount = toString(C26_Source.amount)
          /\ C26_Inserted.paymentId = C26_Source.payment_id
          /\ {"paymentMethod", "remarks", "verifiedBy", "verifiedAt"} \subseteq DOMAIN C26_Inserted
          /\ C26_Inserted.paymentMethod = C26_Source.payment_method
          /\ C26_Inserted.remarks = C26_Source.remarks
          /\ C26_Inserted.verifiedBy = C26_Source.verified_by
          /\ C26_Inserted.verifiedAt = C26_Source.verified_at ]_vars

\* C30: an activation inserts a record only when its existence check read the
\* store and found the key absent: an activation whose read failed returns a
\* failure, and no record of the store comes from one
C30_NoInsertOnFailedRead ==
    /\ \A i \in 1..Len(planSource) :
          planSource[i].by = "addPaymentToUserPlans" => planSource[i].readOk
    /\ (last # NoResult /\ last.op = "add" /\ ~last.readOk) => last.outcome = "error"

(***************************************************************************)
(* The claims service: the role, the frame of update, the window           *)
(***************************************************************************)

\* the service has just accepted the set or update request of the running call
C27_Accepted ==
    /\ claimsCall.pc = "fetch"
    /\ claimsCall.op \in {"set", "update"}
    /\ claimsCall'.pc = "idle"
    /\ last'.outcome = "ok"

\* C27: after an accepted set or update the subject's stored role is the role
\* of the claims the caller supplied, or the role it had when an update
\* supplied none: claims made from a payment, which carry role 'user', never
\* leave the subject with role 'admin'
C27_RoleIsTheSuppliedRole ==
    [][ C27_Accepted =>
          LET before == snapshot[claimsCall.userId]
              after == snapshot'[claimsCall.userId]
          IN  IF "role" \in DOMAIN claimsCall.body
              THEN "role" \in DOMAIN after /\ after.role = claimsCall.body.role
              ELSE /\ ("role" \in DOMAIN after) = ("role" \in DOMAIN before)
                   /\ "role" \in DOMAIN after => after.role = before.role ]_vars

\* C28: an accepted update changes only the fields of the partial claims the
\* caller supplied: every other field of the subject's claims is the same
\* after the call as before it, and none is added
C28_UpdateFrame ==
    [][ ( /\ claimsCall.pc = "fetch"
          /\ claimsCall.op = "update"
          /\ claimsCall'.pc = "idle"
          /\ last'.outcome = "ok" )
        => LET before == snapshot[claimsCall.userId]
               after == snapshot'[claimsCall.userId]
           IN  \A f \in (DOMAIN before \cup DOMAIN after) \ DOMAIN claimsCall.body :
                  /\ f \in DOMAIN before
                  /\ f \in DOMAIN after
                  /\ after[f] = before[f] ]_vars

\* the expiry Duration Inference gives the payment of the running
\* synchronization for a start date
C29_EntitlementExpiry(start) ==
    IF dur_out.by = "addPaymentToUserPlans"
    THEN addPaymentToUserPlans_expiryDate(dur_in.plan_name, dur_in.amount, start)
    ELSE createUserPlanFromPayment_expiryDate(dur_in.plan_name, dur_in.amount, start)

\* C29: the window of the claims made from a payment (end_date minus
\* start_date) is the window Duration Inference gives the entitlement of the
\* same payment: from the claims' own start date both reach the same end date,
\* for every plan name and amount
C29_ClaimsWindowIsEntitlementWindow ==
    (claimsCall.pc # "idle" /\ claimsCall.op = "set" /\ dur_out # NoResult)
    => claimsCall.body.end_date = C29_EntitlementExpiry(claimsCall.body.start_date)

(***************************************************************************)
(* The pass-through of processPayment, the two activations, the admin      *)
(* route, the dialogs' writes and the feed analysis                        *)
(***************************************************************************)

\* C31: processPayment passes the service's answer through: an OK response is
\* returned as it was received, with its completed, failed and unprocessed
\* steps, and a response that is not OK, a credential that cannot be had or a
\* missing session makes it throw and return no outcome
C31_PassThrough ==
    (last # NoResult /\ last.op = "processPayment") =>
        IF last.outcome = "returned"
        THEN last.result = last.answered
        ELSE /\ last.outcome \in {"thrown", "not_authenticated"}
             /\ "result" \notin DOMAIN last

\* processPayment has returned an answer that reports a failed step, as a
\* partial failure
C31_Witness ==
    /\ last # NoResult
    /\ last.op = "processPayment"
    /\ last.outcome = "returned"
    /\ last.answered.status = "partial_failure"
    /\ last.answered.steps_failed # {}
    /\ last.result.status = "partial_failure"

\* the payment of the running inference, as the ledger holds it
C32_Payment == cleanData(dur_in.amount, "pay_A", dur_in.plan_name, "u1", 1)

\* the fields both activations store
C32_Fields == {"status", "userId", "userEmail", "planName", "paymentId", "amount",
               "startDate", "expiryDate"}

\* C32: the two activations agree: for every plan name and amount the expiry
\* one of them has computed is the expiry the other computes for the same
\* clock reading, and the records they build for the payment have status
\* active and the same subject, plan name, payment reference and amount
C32_ActivationsAgree ==
    dur_out # NoResult =>
        /\ dur_out.expiryDate =
              addPaymentToUserPlans_expiryDate(
                  dur_in.plan_name, dur_in.amount, SecondSample(dur_in))
        /\ dur_out.expiryDate =
              createUserPlanFromPayment_expiryDate(
                  dur_in.plan_name, dur_in.amount, SecondSample(dur_in))
        /\ userPlanData(C32_Payment, 2).status = "active"
        /\ \A f \in C32_Fields :
              userPlanData(C32_Payment, 2)[f]
                  = createUserPlanFromPayment_userPlanData(C32_Payment, 2)[f]

\* the payment service has computed the window of a Premium plan that only
\* its amount identifies, and of an amount that is neither 449 nor 4308
C32_Witness ==
    /\ dur_out # NoResult
    /\ dur_out.by = "createUserPlanFromPayment"
    /\ dur_in.plan_name = PlanPremiumOnly
    /\ dur_in.amount = 999

\* C33: the admin route on useAdminAuth renders its children only when the
\* user who is current has been checked and found to be an administrator,
\* however sign-out and a switch of user interleave with the token check
C33_NoStaleAdminDecision ==
    AdminRoute_useAdminAuth = "children" =>
        /\ currentUser # Undefined
        /\ \A user \in currentUser :
              /\ \E checked \in adminAuth.checkedFor : checked.uid = user.uid
              /\ RoleClaim(user.uid) = Def("admin")

\* C34: in one operator's page at most one updateDoc of the verify and reject
\* dialogs is waiting at any time, and the processing flag is set exactly
\* while one is: a submission made while a write waits starts no second
\* write, and the flag is false again once the attempt has settled, whether
\* the write was made or threw
C34_OneWriteInFlight ==
    \A o \in Operators :
        /\ Len(writes[o]) <= 1
        /\ processing[o] <=> writes[o] # <<>>

\* an operator's write waits while a dialog of the page is open, its buttons
\* there to be clicked
C34_Witness ==
    \E o \in Operators :
        /\ Len(writes[o]) = 1
        /\ processing[o]
        /\ dialog[o] \in {"verify", "reject"}

\* C35: when processRSSItems has returned, the four counters add up to
\* total_items, which is the number of the feed's items, and each counter is
\* the length of its list of slugs
C35_EveryItemInOneCategory ==
    rss.pc = "done" =>
        /\ rss.stats.total_items = Len(rss.items)
        /\ rss.stats.new_items + rss.stats.updated_items
             + rss.stats.skipped_items + rss.stats.errors = rss.stats.total_items
        /\ rss.stats.new_items = Len(rss.processedSlugs.new_slugs)
        /\ rss.stats.updated_items = Len(rss.processedSlugs.updated_slugs)
        /\ rss.stats.skipped_items = Len(rss.processedSlugs.skipped_slugs)
        /\ rss.stats.errors = Len(rss.processedSlugs.error_slugs)

\* an analysis has returned for a feed with an item that was new, one that
\* had changed and one that had no slug
C35_Witness ==
    /\ rss.pc = "done"
    /\ rss.stats.new_items > 0
    /\ rss.stats.updated_items > 0
    /\ rss.stats.errors > 0

====
